---- MODULE Spec2Model ----
(***************************************************************************)
(* A state-machine model of the Game Boy emulator core: the CPU            *)
(* interpreter (cpu.py), the memory bus (memory.py), the interrupt         *)
(* controller (interrupts.py), the PPU mode machine (ppu.py), the timer    *)
(* (timer.py), the cartridge (cartridge.py), the joypad (input.py) and the *)
(* orchestrator loop (gameboy.py).                                         *)
(*                                                                         *)
(* The Python objects are records.  The objects that hang off the memory   *)
(* bus (CPU, Memory, Interrupts, Input, APU) are threaded through the      *)
(* operators as one record S = [cpu, mem, ic, inp, apu], because a bus     *)
(* write may change any of them.  An operator named after a Python method  *)
(* returns the state after the call (or the value the call returns).       *)
(*                                                                         *)
(* The arrays of Memory (rom, vram, eram, wram, oam, io, hram) are sparse   *)
(* functions: an index that is not in the domain holds 0, the value every  *)
(* array is initialised with.                                              *)
(***************************************************************************)
EXTENDS Integers, Sequences, FiniteSets, TLC

VARIABLES
    cpu,     \* CPU: registers a f b c d e h l sp pc, ime, halted, stopped, cycles
    mem,     \* Memory: rom vram eram wram oam io hram ie
    ic,      \* Interrupts: interrupt_flag, interrupt_enable (+ nreq, a count of request_interrupt calls per bit)
    inp,     \* Input: buttons, select_buttons, select_dpad, p1
    apu,     \* APU: the fields its register reads depend on, and its step counters
    ppu,     \* PPU: mode, line, cycles, vblank_flag, lcdc, scy, scx, bgp
    timer,   \* Timer: div tima tma tac div_counter tima_counter timer_enabled
    cart,    \* Cartridge: rom_data, cart_type, rom_bank, ram_bank, ram_enabled, banking_mode
    frame,   \* GameBoy.emulate_frame: its locals and its position
    obs,     \* observations of the run: what was fed to the components, snapshots
    last     \* the operation that produced the current state, with its argument

vars == <<cpu, mem, ic, inp, apu, ppu, timer, cart, frame, obs, last>>

----------------------------------------------------------------------------
(* Python's integer operators on the non-negative values the code uses.    *)

RECURSIVE BitAnd(_, _)
BitAnd(x, y) ==
    IF x = 0 \/ y = 0 THEN 0
    ELSE (x % 2) * (y % 2) + 2 * BitAnd(x \div 2, y \div 2)

RECURSIVE BitOr(_, _)
BitOr(x, y) ==
    IF x = 0 THEN y
    ELSE IF y = 0 THEN x
    ELSE (IF (x % 2) + (y % 2) > 0 THEN 1 ELSE 0) + 2 * BitOr(x \div 2, y \div 2)

RECURSIVE BitXor(_, _)
BitXor(x, y) ==
    IF x = 0 THEN y
    ELSE IF y = 0 THEN x
    ELSE ((x + y) % 2) + 2 * BitXor(x \div 2, y \div 2)

\* (x >> n) & 1
Bit(x, n) == (x \div (2 ^ n)) % 2

\* x & ~mask, for a non-negative x
BitClear(x, mask) == x - BitAnd(x, mask)

\* Python list read and write; arr[i] = 0 is the initial content.
Get(arr, i) == IF i \in DOMAIN arr THEN arr[i] ELSE 0

Put(arr, i, v) ==
    IF v = 0
    THEN [k \in (DOMAIN arr) \ {i} |-> arr[k]]
    ELSE [k \in (DOMAIN arr) \cup {i} |-> IF k = i THEN v ELSE arr[k]]

EmptyArr == [k \in {} |-> 0]

----------------------------------------------------------------------------
(* input.py                                                                *)

BUTTON_A == 0
BUTTON_B == 1
BUTTON_SELECT == 2
BUTTON_START == 3
BUTTON_RIGHT == 4
BUTTON_LEFT == 5
BUTTON_UP == 6
BUTTON_DOWN == 7

\* Input.read_p1
read_p1(i) ==
    LET r0 == 207  \* 0xCF
        grp(r, sel, b3, b2, b1, b0, selbit) ==
            IF ~sel
            THEN BitClear(r, (IF i.buttons[b3] THEN 8 ELSE 0) + (IF i.buttons[b2] THEN 4 ELSE 0)
                             + (IF i.buttons[b1] THEN 2 ELSE 0) + (IF i.buttons[b0] THEN 1 ELSE 0)
                             + selbit)
            ELSE r
        r1 == grp(r0, i.select_buttons, BUTTON_START, BUTTON_SELECT, BUTTON_B, BUTTON_A, 32)
    IN  grp(r1, i.select_dpad, BUTTON_DOWN, BUTTON_UP, BUTTON_LEFT, BUTTON_RIGHT, 16)

\* Input.update_p1_register (self.memory is set by GameBoy.__init__)
update_p1_register(S) ==
    LET p == read_p1(S.inp)
    IN  [S EXCEPT !.inp.p1 = p, !.mem.io = Put(@, 0, p)]

\* Input.write_p1
write_p1(S, value) ==
    update_p1_register(
        [S EXCEPT !.inp.select_buttons = (BitAnd(value, 32) = 0),
                  !.inp.select_dpad = (BitAnd(value, 16) = 0)])

----------------------------------------------------------------------------
(* audio.py: the register interface and the frame sequencer.  Of the APU's  *)
(* fields the model keeps those a register read depends on (sound_enabled, *)
(* and per channel n in 1..4: enabled, dac_enabled, length_counter,        *)
(* length_enabled), the two switches enabled / audio_enabled, and the      *)
(* counters of step.  Samples, envelopes and the sweep change none of      *)
(* these.                                                                  *)

\* APU.read_register
apu_read_register(a, address) ==
    IF address = \hFF26
    THEN 112 + (IF a.sound_enabled THEN 128 ELSE 0)
             + (IF a.ch_enabled[1] THEN 1 ELSE 0) + (IF a.ch_enabled[2] THEN 2 ELSE 0)
             + (IF a.ch_enabled[3] THEN 4 ELSE 0) + (IF a.ch_enabled[4] THEN 8 ELSE 0)
    ELSE 255

\* APU.trigger_channel1..4
apu_trigger(a, n) ==
    [a EXCEPT !.ch_enabled[n] = IF a.dac_enabled[n] THEN TRUE ELSE @,
              !.length_counter[n] = IF @ = 0 THEN (IF n = 3 THEN 256 ELSE 64) ELSE @]

\* APU.write_register: NRx1 (length), NRx2 (DAC), NRx4 (length enable, trigger)
apu_nrx1(a, n, value) ==
    [a EXCEPT !.length_counter[n] = IF n = 3 THEN 256 - value ELSE 64 - BitAnd(value, 63)]

apu_nrx2(a, n, value) ==
    [a EXCEPT !.dac_enabled[n] = (BitAnd(value, 248) # 0)]

apu_nrx4(a, n, value) ==
    LET a1 == [a EXCEPT !.length_enabled[n] = (BitAnd(value, 64) # 0)]
    IN  IF BitAnd(value, 128) # 0 THEN apu_trigger(a1, n) ELSE a1

\* APU.reset
apu_reset(a) == [a EXCEPT !.ch_enabled = [n \in 1..4 |-> FALSE]]

\* APU.write_register
apu_write_register(a, address, value) ==
    IF ~a.enabled THEN a
    ELSE IF address = \hFF11 THEN apu_nrx1(a, 1, value)
    ELSE IF address = \hFF12 THEN apu_nrx2(a, 1, value)
    ELSE IF address = \hFF14 THEN apu_nrx4(a, 1, value)
    ELSE IF address = \hFF16 THEN apu_nrx1(a, 2, value)
    ELSE IF address = \hFF17 THEN apu_nrx2(a, 2, value)
    ELSE IF address = \hFF19 THEN apu_nrx4(a, 2, value)
    ELSE IF address = \hFF1A
         THEN [a EXCEPT !.dac_enabled[3] = (BitAnd(value, 128) # 0),
                        !.ch_enabled[3] = IF BitAnd(value, 128) # 0 THEN @ ELSE FALSE]
    ELSE IF address = \hFF1B THEN apu_nrx1(a, 3, value)
    ELSE IF address = \hFF1E THEN apu_nrx4(a, 3, value)
    ELSE IF address = \hFF20 THEN apu_nrx1(a, 4, value)
    ELSE IF address = \hFF21 THEN apu_nrx2(a, 4, value)
    ELSE IF address = \hFF23 THEN apu_nrx4(a, 4, value)
    ELSE IF address = \hFF26
         THEN IF a.sound_enabled /\ BitAnd(value, 128) = 0
              THEN apu_reset([a EXCEPT !.sound_enabled = FALSE])
              ELSE [a EXCEPT !.sound_enabled = (BitAnd(value, 128) # 0)]
    ELSE a

\* APU.clock_length_counters
clock_length_counters(a) ==
    LET tick(n) == a.length_enabled[n] /\ a.length_counter[n] > 0
    IN  [a EXCEPT !.length_counter = [n \in 1..4 |-> IF tick(n) THEN @[n] - 1 ELSE @[n]],
                  !.ch_enabled = [n \in 1..4 |-> IF tick(n) /\ a.length_counter[n] = 1
                                                 THEN FALSE ELSE @[n]]]

\* APU.clock_frame_sequencer
clock_frame_sequencer(a) ==
    LET a1 == IF a.frame_sequencer_step % 2 = 0 THEN clock_length_counters(a) ELSE a
    IN  [a1 EXCEPT !.frame_sequencer_step = (@ + 1) % 8]

\* APU.step
apu_step(a, cycles) ==
    IF ~a.audio_enabled \/ ~a.enabled \/ ~a.sound_enabled THEN a
    ELSE LET c  == a.frame_sequencer_counter + cycles
             a1 == IF c >= 8192
                   THEN clock_frame_sequencer([a EXCEPT !.frame_sequencer_counter = c - 8192])
                   ELSE [a EXCEPT !.frame_sequencer_counter = c]
         IN  [a1 EXCEPT !.cycle_counter = (@ + cycles) % 95]

----------------------------------------------------------------------------
(* interrupts.py: the register accessors, and memory.py: the bus.          *)

\* Interrupts.set_interrupt_flag
set_interrupt_flag(S, value) == [S EXCEPT !.ic.interrupt_flag = BitAnd(value, 31)]

\* Interrupts.set_interrupt_enable
set_interrupt_enable(S, value) == [S EXCEPT !.ic.interrupt_enable = BitAnd(value, 31)]

\* Memory.read_byte
read_byte(S, addr) ==
    LET address == addr % 65536
        m == S.mem
    IN  IF address < \h8000 THEN Get(m.rom, address)
        ELSE IF address < \hA000 THEN Get(m.vram, address - \h8000)
        ELSE IF address >= \hC000 /\ address < \hE000 THEN Get(m.wram, address - \hC000)
        ELSE IF address >= \hFE00 /\ address < \hFEA0 THEN Get(m.oam, address - \hFE00)
        ELSE IF address >= \hFF80 /\ address < \hFFFF THEN Get(m.hram, address - \hFF80)
        ELSE IF address < \hC000 THEN Get(m.eram, address - \hA000)
        ELSE IF address < \hFE00 THEN Get(m.wram, address - \hE000)
        ELSE IF address < \hFF00 THEN 0
        ELSE IF address < \hFF80
             THEN IF address = \hFF00 THEN read_p1(S.inp)
                  ELSE IF address = \hFF0F THEN S.ic.interrupt_flag
                  ELSE IF address >= \hFF10 /\ address <= \hFF3F
                       THEN apu_read_register(S.apu, address)
                  ELSE Get(m.io, address - \hFF00)
        ELSE S.ic.interrupt_enable

\* Memory.write_byte
write_byte(S, addr, val) ==
    LET address == addr % 65536
        value == val % 256
    IN  IF address < \h8000 THEN S
        ELSE IF address < \hA000 THEN [S EXCEPT !.mem.vram = Put(@, address - \h8000, value)]
        ELSE IF address < \hC000 THEN [S EXCEPT !.mem.eram = Put(@, address - \hA000, value)]
        ELSE IF address < \hE000 THEN [S EXCEPT !.mem.wram = Put(@, address - \hC000, value)]
        ELSE IF address < \hFE00 THEN [S EXCEPT !.mem.wram = Put(@, address - \hE000, value)]
        ELSE IF address < \hFEA0 THEN [S EXCEPT !.mem.oam = Put(@, address - \hFE00, value)]
        ELSE IF address < \hFF00 THEN S
        ELSE IF address < \hFF80
             THEN LET T == IF address = \hFF00 THEN write_p1(S, value)
                           ELSE IF address = \hFF0F THEN set_interrupt_flag(S, value)
                           ELSE IF address >= \hFF10 /\ address <= \hFF3F
                                THEN [S EXCEPT !.apu = apu_write_register(@, address, value)]
                           ELSE S
                  IN  [T EXCEPT !.mem.io = Put(@, address - \hFF00, value)]
        ELSE IF address < \hFFFF THEN [S EXCEPT !.mem.hram = Put(@, address - \hFF80, value)]
        ELSE [set_interrupt_enable(S, value) EXCEPT !.mem.ie = value]

\* Memory.read_word
read_word(S, address) == read_byte(S, address + 1) * 256 + read_byte(S, address)

\* write_word that stores the low byte only
write_word_low(S, address, value) == write_byte(S, address, value % 256)

\* Memory.write_word
write_word(S, address, value) ==
    write_byte(write_byte(S, address, value % 256), address + 1, (value \div 256) % 256)

\* Interrupts.request_interrupt
request_interrupt(S, interrupt_bit) ==
    LET f == BitOr(S.ic.interrupt_flag, 2 ^ interrupt_bit)
        T == [S EXCEPT !.ic.interrupt_flag = f, !.ic.nreq[interrupt_bit] = @ + 1]
    IN  write_byte(T, \hFF0F, f)

----------------------------------------------------------------------------
(* cpu.py: flags, register pairs, memory access, stack.                    *)
(* A method that returns a value and changes the CPU is a record           *)
(* [v |-> the value returned, S |-> the state after the call].             *)

FLAG_Z == 7
FLAG_N == 6
FLAG_H == 5
FLAG_C == 4

\* CPU.get_flag
get_flag(S, flag) == Bit(S.cpu.f, flag)

\* CPU.set_flag; value is the truth value of the Python argument
set_flag(S, flag, value) ==
    [S EXCEPT !.cpu.f = IF value THEN BitOr(@, 2 ^ flag) ELSE BitClear(@, 2 ^ flag)]

\* consecutive set_flag calls, in the order written: fs is a sequence of <<flag, value>>
RECURSIVE set_flags(_, _)
set_flags(S, fs) ==
    IF fs = <<>> THEN S
    ELSE set_flags(set_flag(S, Head(fs)[1], Head(fs)[2]), Tail(fs))

\* CPU.get_bc / get_de / get_hl / get_af
get_bc(S) == S.cpu.b * 256 + S.cpu.c
get_de(S) == S.cpu.d * 256 + S.cpu.e
get_hl(S) == S.cpu.h * 256 + S.cpu.l
get_af(S) == S.cpu.a * 256 + S.cpu.f

\* CPU.set_bc / set_de / set_hl
set_bc(S, value) == [S EXCEPT !.cpu.b = (value \div 256) % 256, !.cpu.c = value % 256]
set_de(S, value) == [S EXCEPT !.cpu.d = (value \div 256) % 256, !.cpu.e = value % 256]
set_hl(S, value) == [S EXCEPT !.cpu.h = (value \div 256) % 256, !.cpu.l = value % 256]

\* set_af as it would be without the mask on F (the fault C1 excludes)
set_af_unmasked(S, value) ==
    [S EXCEPT !.cpu.a = (value \div 256) % 256, !.cpu.f = value % 256]

\* CPU.set_af: the low four bits of F are dropped
set_af(S, value) ==
    [S EXCEPT !.cpu.a = (value \div 256) % 256, !.cpu.f = BitAnd(value, 240)]

\* add_cycles that counts one cycle more
add_cycles_odd(S, n) == [S EXCEPT !.cpu.cycles = @ + n + 1]

\* self.cycles += n
add_cycles(S, n) == [S EXCEPT !.cpu.cycles = @ + n]

\* CPU.fetch_byte
fetch_byte(S) ==
    [v |-> read_byte(S, S.cpu.pc), S |-> [S EXCEPT !.cpu.pc = (@ + 1) % 65536]]

\* CPU.fetch_word
fetch_word(S) ==
    [v |-> read_word(S, S.cpu.pc), S |-> [S EXCEPT !.cpu.pc = (@ + 2) % 65536]]

\* a push whose SP is not wrapped to 16 bits
push_word_no_wrap(S, value) ==
    LET T == [S EXCEPT !.cpu.sp = @ - 2]
    IN  write_word(T, T.cpu.sp, value)

\* CPU.push_word
push_word(S, value) ==
    LET T == [S EXCEPT !.cpu.sp = (@ - 2) % 65536]
    IN  write_word(T, T.cpu.sp, value)

\* pop_word that leaves SP where it is
pop_word_keep(S) == [v |-> read_word(S, S.cpu.sp), S |-> S]

\* CPU.pop_word
pop_word(S) ==
    [v |-> read_word(S, S.cpu.sp), S |-> [S EXCEPT !.cpu.sp = (@ + 2) % 65536]]

\* CPU.get_reg8: index 0-7 is B, C, D, E, H, L, (HL), A
get_reg8(S, index) ==
    CASE index = 0 -> S.cpu.b
      [] index = 1 -> S.cpu.c
      [] index = 2 -> S.cpu.d
      [] index = 3 -> S.cpu.e
      [] index = 4 -> S.cpu.h
      [] index = 5 -> S.cpu.l
      [] index = 6 -> read_byte(S, get_hl(S))
      [] index = 7 -> S.cpu.a

\* CPU.set_reg8
set_reg8(S, index, val) ==
    LET value == val % 256
    IN  CASE index = 0 -> [S EXCEPT !.cpu.b = value]
          [] index = 1 -> [S EXCEPT !.cpu.c = value]
          [] index = 2 -> [S EXCEPT !.cpu.d = value]
          [] index = 3 -> [S EXCEPT !.cpu.e = value]
          [] index = 4 -> [S EXCEPT !.cpu.h = value]
          [] index = 5 -> [S EXCEPT !.cpu.l = value]
          [] index = 6 -> write_byte(S, get_hl(S), value)
          [] index = 7 -> [S EXCEPT !.cpu.a = value]

\* CPU.ld_r_r
ld_r_r(S, opcode) ==
    LET dst == (opcode \div 8) % 8
        src == opcode % 8
        T == set_reg8(S, dst, get_reg8(S, src))
    IN  add_cycles(T, IF src = 6 \/ dst = 6 THEN 8 ELSE 4)

\* CPU.inc_8bit
inc_8bit(S, value) ==
    LET result == (value + 1) % 256
    IN  [v |-> result,
         S |-> set_flags(S, << <<FLAG_Z, result = 0>>, <<FLAG_N, FALSE>>,
                               <<FLAG_H, value % 16 = 15>> >>)]

\* CPU.dec_8bit
dec_8bit(S, value) ==
    LET result == (value - 1) % 256
    IN  [v |-> result,
         S |-> set_flags(S, << <<FLAG_Z, result = 0>>, <<FLAG_N, TRUE>>,
                               <<FLAG_H, value % 16 = 0>> >>)]

\* CPU.add_a
add_a(S, value) ==
    LET result == S.cpu.a + value
        T == set_flags(S, << <<FLAG_Z, result % 256 = 0>>, <<FLAG_N, FALSE>>,
                             <<FLAG_H, (S.cpu.a % 16) + (value % 16) > 15>>,
                             <<FLAG_C, result > 255>> >>)
    IN  [T EXCEPT !.cpu.a = result % 256]

\* CPU.adc_a
adc_a(S, value) ==
    LET carry == get_flag(S, FLAG_C)
        result == S.cpu.a + value + carry
        T == set_flags(S, << <<FLAG_Z, result % 256 = 0>>, <<FLAG_N, FALSE>>,
                             <<FLAG_H, (S.cpu.a % 16) + (value % 16) + carry > 15>>,
                             <<FLAG_C, result > 255>> >>)
    IN  [T EXCEPT !.cpu.a = result % 256]

\* CPU.sub_a
sub_a(S, value) ==
    LET result == S.cpu.a - value
        T == set_flags(S, << <<FLAG_Z, result % 256 = 0>>, <<FLAG_N, TRUE>>,
                             <<FLAG_H, (S.cpu.a % 16) < (value % 16)>>,
                             <<FLAG_C, result < 0>> >>)
    IN  [T EXCEPT !.cpu.a = result % 256]

\* sbc_a as it would be if the half carry left the carry-in out
sbc_a_half_no_carry(S, value) ==
    LET carry == get_flag(S, FLAG_C)
        result == S.cpu.a - value - carry
        T == set_flags(S, << <<FLAG_Z, result % 256 = 0>>, <<FLAG_N, TRUE>>,
                             <<FLAG_H, (S.cpu.a % 16) < (value % 16)>>,
                             <<FLAG_C, result < 0>> >>)
    IN  [T EXCEPT !.cpu.a = result % 256]

\* CPU.sbc_a
sbc_a(S, value) ==
    LET carry == get_flag(S, FLAG_C)
        result == S.cpu.a - value - carry
        T == set_flags(S, << <<FLAG_Z, result % 256 = 0>>, <<FLAG_N, TRUE>>,
                             <<FLAG_H, (S.cpu.a % 16) < (value % 16) + carry>>,
                             <<FLAG_C, result < 0>> >>)
    IN  [T EXCEPT !.cpu.a = result % 256]

\* CPU.and_a
and_a(S, value) ==
    LET T == [S EXCEPT !.cpu.a = BitAnd(@, value)]
    IN  set_flags(T, << <<FLAG_Z, T.cpu.a = 0>>, <<FLAG_N, FALSE>>,
                        <<FLAG_H, TRUE>>, <<FLAG_C, FALSE>> >>)

\* CPU.xor_a
xor_a(S, value) ==
    LET T == [S EXCEPT !.cpu.a = BitXor(@, value)]
    IN  set_flags(T, << <<FLAG_Z, T.cpu.a = 0>>, <<FLAG_N, FALSE>>,
                        <<FLAG_H, FALSE>>, <<FLAG_C, FALSE>> >>)

\* CPU.or_a
or_a(S, value) ==
    LET T == [S EXCEPT !.cpu.a = BitOr(@, value)]
    IN  set_flags(T, << <<FLAG_Z, T.cpu.a = 0>>, <<FLAG_N, FALSE>>,
                        <<FLAG_H, FALSE>>, <<FLAG_C, FALSE>> >>)

\* CPU.cp_a
cp_a(S, value) ==
    LET result == S.cpu.a - value
    IN  set_flags(S, << <<FLAG_Z, result % 256 = 0>>, <<FLAG_N, TRUE>>,
                        <<FLAG_H, (S.cpu.a % 16) < (value % 16)>>,
                        <<FLAG_C, result < 0>> >>)

\* CPU.add_hl
add_hl(S, value) ==
    LET hl == get_hl(S)
        result == hl + value
        T == set_flags(S, << <<FLAG_N, FALSE>>,
                             <<FLAG_H, (hl % 4096) + (value % 4096) > 4095>>,
                             <<FLAG_C, result > 65535>> >>)
    IN  set_hl(T, result % 65536)

----------------------------------------------------------------------------
(* cpu.py: the interpreter.  Opcodes that the if/elif ladder treats alike  *)
(* (the same statement for another register or condition) share one arm;   *)
(* every opcode the ladder does not name falls to the last arm, as in the  *)
(* source.                                                                 *)

\* The 16-bit operand of 0x01/0x11/0x21/0x31, 0x03.., 0x09.., 0x0B..: BC, DE, HL, SP
get_rr(S, i) ==
    CASE i = 0 -> get_bc(S) [] i = 1 -> get_de(S) [] i = 2 -> get_hl(S) [] i = 3 -> S.cpu.sp

set_rr(S, i, value) ==
    CASE i = 0 -> set_bc(S, value) [] i = 1 -> set_de(S, value)
      [] i = 2 -> set_hl(S, value) [] i = 3 -> [S EXCEPT !.cpu.sp = value]

\* The condition of JR/JP/CALL/RET cc: NZ, Z, NC, C
cond(S, i) ==
    CASE i = 0 -> get_flag(S, FLAG_Z) = 0 [] i = 1 -> get_flag(S, FLAG_Z) = 1
      [] i = 2 -> get_flag(S, FLAG_C) = 0 [] i = 3 -> get_flag(S, FLAG_C) = 1

\* offset = fetch_byte(); if offset > 127: offset -= 256; pc = (pc + offset) & 0xFFFF
jr_taken(S, offset) ==
    [S EXCEPT !.cpu.pc = (@ + (IF offset > 127 THEN offset - 256 ELSE offset)) % 65536]

\* The eight ALU helpers of 0x80-0xBF and of 0xC6, 0xCE, ..., 0xFE
alu(S, i, value) ==
    CASE i = 0 -> add_a(S, value) [] i = 1 -> adc_a(S, value)
      [] i = 2 -> sub_a(S, value) [] i = 3 -> sbc_a(S, value)
      [] i = 4 -> and_a(S, value) [] i = 5 -> xor_a(S, value)
      [] i = 6 -> or_a(S, value)  [] i = 7 -> cp_a(S, value)

\* CPU.execute_cb_opcode
execute_cb_opcode(S, opcode) ==
    LET reg_idx == opcode % 8
        value == get_reg8(S, reg_idx)
        bit == (opcode \div 8) % 8
        old_c == get_flag(S, FLAG_C)
        \* result and carry of the rotates and shifts 0x00-0x3F, by (opcode >> 3)
        result ==
            CASE bit = 0 -> (value * 2 + Bit(value, 7)) % 256
              [] bit = 1 -> ((value \div 2) + (value % 2) * 128) % 256
              [] bit = 2 -> (value * 2 + old_c) % 256
              [] bit = 3 -> ((value \div 2) + old_c * 128) % 256
              [] bit = 4 -> (value * 2) % 256
              [] bit = 5 -> ((value \div 2) + BitAnd(value, 128)) % 256
              [] bit = 6 -> (value % 16) * 16 + (value \div 16)
              [] bit = 7 -> (value \div 2) % 256
        carry ==
            CASE bit \in {0, 2, 4} -> Bit(value, 7)
              [] bit \in {1, 3, 5, 7} -> value % 2
              [] bit = 6 -> 0
    IN  IF opcode <= 63
        THEN add_cycles(
                 set_flags(set_reg8(S, reg_idx, result),
                           << <<FLAG_Z, result = 0>>, <<FLAG_N, FALSE>>,
                              <<FLAG_H, FALSE>>, <<FLAG_C, carry = 1>> >>),
                 IF reg_idx # 6 THEN 8 ELSE 16)
        ELSE IF opcode <= 127
        THEN add_cycles(
                 set_flags(S, << <<FLAG_Z, Bit(value, bit) = 0>>, <<FLAG_N, FALSE>>,
                                 <<FLAG_H, TRUE>> >>),
                 IF reg_idx # 6 THEN 8 ELSE 12)
        ELSE IF opcode <= 191
        THEN add_cycles(set_reg8(S, reg_idx, BitClear(value, 2 ^ bit)),
                        IF reg_idx # 6 THEN 8 ELSE 16)
        ELSE add_cycles(set_reg8(S, reg_idx, BitOr(value, 2 ^ bit)),
                        IF reg_idx # 6 THEN 8 ELSE 16)

\* CPU.execute_opcode
execute_opcode(S, opcode) ==
    LET lo == opcode % 8
        mid == (opcode \div 8) % 8
        rr == (opcode \div 16) % 4
        cc == (opcode \div 8) % 4
        fb == fetch_byte(S)
        fw == fetch_word(S)
    IN  CASE opcode = 0 -> add_cycles(S, 4)
          \* LD BC,nn  LD DE,nn  LD HL,nn  LD SP,nn
          [] opcode \in {1, 17, 33, 49} -> add_cycles(set_rr(fw.S, rr, fw.v), 12)
          \* LD (BC),A  LD (DE),A
          [] opcode \in {2, 18} -> add_cycles(write_byte(S, get_rr(S, rr), S.cpu.a), 8)
          \* LD (HL+),A  LD (HL-),A
          [] opcode = 34 ->
                add_cycles(set_hl(write_byte(S, get_hl(S), S.cpu.a), (get_hl(S) + 1) % 65536), 8)
          [] opcode = 50 ->
                add_cycles(set_hl(write_byte(S, get_hl(S), S.cpu.a), (get_hl(S) - 1) % 65536), 8)
          \* INC rr, DEC rr
          [] opcode \in {3, 19, 35, 51} -> add_cycles(set_rr(S, rr, (get_rr(S, rr) + 1) % 65536), 8)
          [] opcode \in {11, 27, 43, 59} -> add_cycles(set_rr(S, rr, (get_rr(S, rr) - 1) % 65536), 8)
          \* INC r, INC (HL)
          [] opcode \in {4, 12, 20, 28, 36, 44, 52, 60} ->
                LET r == inc_8bit(S, get_reg8(S, mid))
                IN  add_cycles(set_reg8(r.S, mid, r.v), IF mid = 6 THEN 12 ELSE 4)
          \* DEC r, DEC (HL)
          [] opcode \in {5, 13, 21, 29, 37, 45, 53, 61} ->
                LET r == dec_8bit(S, get_reg8(S, mid))
                IN  add_cycles(set_reg8(r.S, mid, r.v), IF mid = 6 THEN 12 ELSE 4)
          \* LD r,n, LD (HL),n
          [] opcode \in {6, 14, 22, 30, 38, 46, 54, 62} ->
                add_cycles(set_reg8(fb.S, mid, fb.v), IF mid = 6 THEN 12 ELSE 8)
          \* RLCA
          [] opcode = 7 ->
                LET carry == Bit(S.cpu.a, 7)
                    T == [S EXCEPT !.cpu.a = (@ * 2 + carry) % 256]
                IN  add_cycles(set_flags(T, << <<FLAG_Z, FALSE>>, <<FLAG_N, FALSE>>,
                                               <<FLAG_H, FALSE>>, <<FLAG_C, carry = 1>> >>), 4)
          \* LD (nn),SP
          [] opcode = 8 -> add_cycles(write_word(fw.S, fw.v, S.cpu.sp), 20)
          \* ADD HL,rr
          [] opcode \in {9, 25, 41, 57} -> add_cycles(add_hl(S, get_rr(S, rr)), 8)
          \* LD A,(BC)  LD A,(DE)
          [] opcode \in {10, 26} ->
                add_cycles([S EXCEPT !.cpu.a = read_byte(S, get_rr(S, rr))], 8)
          \* LD A,(HL+)  LD A,(HL-)
          [] opcode = 42 ->
                add_cycles(set_hl([S EXCEPT !.cpu.a = read_byte(S, get_hl(S))],
                                  (get_hl(S) + 1) % 65536), 8)
          [] opcode = 58 ->
                add_cycles(set_hl([S EXCEPT !.cpu.a = read_byte(S, get_hl(S))],
                                  (get_hl(S) - 1) % 65536), 8)
          \* RRCA
          [] opcode = 15 ->
                LET carry == S.cpu.a % 2
                    T == [S EXCEPT !.cpu.a = ((@ \div 2) + carry * 128) % 256]
                IN  add_cycles(set_flags(T, << <<FLAG_Z, FALSE>>, <<FLAG_N, FALSE>>,
                                               <<FLAG_H, FALSE>>, <<FLAG_C, carry = 1>> >>), 4)
          \* RLA
          [] opcode = 23 ->
                LET carry == get_flag(S, FLAG_C)
                    new_carry == Bit(S.cpu.a, 7)
                    T == [S EXCEPT !.cpu.a = (@ * 2 + carry) % 256]
                IN  add_cycles(set_flags(T, << <<FLAG_Z, FALSE>>, <<FLAG_N, FALSE>>,
                                               <<FLAG_H, FALSE>>, <<FLAG_C, new_carry = 1>> >>), 4)
          \* RRA
          [] opcode = 31 ->
                LET carry == get_flag(S, FLAG_C)
                    new_carry == S.cpu.a % 2
                    T == [S EXCEPT !.cpu.a = ((@ \div 2) + carry * 128) % 256]
                IN  add_cycles(set_flags(T, << <<FLAG_Z, FALSE>>, <<FLAG_N, FALSE>>,
                                               <<FLAG_H, FALSE>>, <<FLAG_C, new_carry = 1>> >>), 4)
          \* JR n
          [] opcode = 24 -> add_cycles(jr_taken(fb.S, fb.v), 12)
          \* JR NZ,n  JR Z,n  JR NC,n  JR C,n
          [] opcode \in {32, 40, 48, 56} ->
                IF cond(S, cc) THEN add_cycles(jr_taken(fb.S, fb.v), 12)
                ELSE add_cycles(fb.S, 8)
          \* CPL
          [] opcode = 47 ->
                add_cycles(set_flags([S EXCEPT !.cpu.a = BitXor(@, 255)],
                                     << <<FLAG_N, TRUE>>, <<FLAG_H, TRUE>> >>), 4)
          \* SCF
          [] opcode = 55 ->
                add_cycles(set_flags(S, << <<FLAG_N, FALSE>>, <<FLAG_H, FALSE>>,
                                           <<FLAG_C, TRUE>> >>), 4)
          \* CCF
          [] opcode = 63 ->
                add_cycles(set_flags(S, << <<FLAG_N, FALSE>>, <<FLAG_H, FALSE>>,
                                           <<FLAG_C, get_flag(S, FLAG_C) = 0>> >>), 4)
          \* HALT
          [] opcode = 118 -> add_cycles([S EXCEPT !.cpu.halted = TRUE], 4)
          \* LD r,r'
          [] opcode >= 64 /\ opcode <= 127 /\ opcode # 118 -> ld_r_r(S, opcode)
          \* ADD ADC SUB SBC AND XOR OR CP with a register or (HL)
          [] opcode >= 128 /\ opcode <= 191 ->
                add_cycles(alu(S, mid, get_reg8(S, lo)), IF lo # 6 THEN 4 ELSE 8)
          \* RET NZ  RET Z  RET NC  RET C
          [] opcode \in {192, 200, 208, 216} ->
                IF cond(S, cc)
                THEN LET p == pop_word(S) IN add_cycles([p.S EXCEPT !.cpu.pc = p.v], 20)
                ELSE add_cycles(S, 8)
          \* POP BC  POP DE  POP HL
          [] opcode \in {193, 209, 225} ->
                LET p == pop_word(S) IN add_cycles(set_rr(p.S, rr, p.v), 12)
          \* POP AF
          [] opcode = 241 -> LET p == pop_word(S) IN add_cycles(set_af(p.S, p.v), 12)
          \* JP NZ,nn  JP Z,nn  JP NC,nn  JP C,nn
          [] opcode \in {194, 202, 210, 218} ->
                IF cond(S, cc) THEN add_cycles([fw.S EXCEPT !.cpu.pc = fw.v], 16)
                ELSE add_cycles(fw.S, 12)
          \* JP nn
          [] opcode = 195 -> add_cycles([fw.S EXCEPT !.cpu.pc = fw.v], 16)
          \* CALL NZ,nn  CALL Z,nn  CALL NC,nn  CALL C,nn
          [] opcode \in {196, 204, 212, 220} ->
                IF cond(S, cc)
                THEN add_cycles([push_word(fw.S, fw.S.cpu.pc) EXCEPT !.cpu.pc = fw.v], 24)
                ELSE add_cycles(fw.S, 12)
          \* PUSH BC  PUSH DE  PUSH HL
          [] opcode \in {197, 213, 229} -> add_cycles(push_word(S, get_rr(S, rr)), 16)
          \* PUSH AF
          [] opcode = 245 -> add_cycles(push_word(S, get_af(S)), 16)
          \* ADD A,n  ADC A,n  SUB n  SBC A,n  AND n  XOR n  OR n  CP n
          [] opcode \in {198, 206, 214, 222, 230, 238, 246, 254} ->
                add_cycles(alu(fb.S, mid, fb.v), 8)
          \* RET
          [] opcode = 201 -> LET p == pop_word(S) IN add_cycles([p.S EXCEPT !.cpu.pc = p.v], 16)
          \* PREFIX CB
          [] opcode = 203 -> execute_cb_opcode(fb.S, fb.v)
          \* CALL nn
          [] opcode = 205 ->
                add_cycles([push_word(fw.S, fw.S.cpu.pc) EXCEPT !.cpu.pc = fw.v], 24)
          \* RETI
          [] opcode = 217 ->
                LET p == pop_word(S)
                IN  add_cycles([p.S EXCEPT !.cpu.pc = p.v, !.cpu.ime = TRUE], 16)
          \* LDH (n),A
          [] opcode = 224 -> add_cycles(write_byte(fb.S, \hFF00 + fb.v, S.cpu.a), 12)
          \* LD (C),A
          [] opcode = 226 -> add_cycles(write_byte(S, \hFF00 + S.cpu.c, S.cpu.a), 8)
          \* JP (HL)
          [] opcode = 233 -> add_cycles([S EXCEPT !.cpu.pc = get_hl(S)], 4)
          \* LD (nn),A
          [] opcode = 234 -> add_cycles(write_byte(fw.S, fw.v, S.cpu.a), 16)
          \* LDH A,(n)
          [] opcode = 240 ->
                add_cycles([fb.S EXCEPT !.cpu.a = read_byte(fb.S, \hFF00 + fb.v)], 12)
          \* LD A,(C)
          [] opcode = 242 -> add_cycles([S EXCEPT !.cpu.a = read_byte(S, \hFF00 + S.cpu.c)], 8)
          \* DI
          [] opcode = 243 -> add_cycles([S EXCEPT !.cpu.ime = FALSE], 4)
          \* LD A,(nn)
          [] opcode = 250 -> add_cycles([fw.S EXCEPT !.cpu.a = read_byte(fw.S, fw.v)], 16)
          \* EI
          [] opcode = 251 -> add_cycles([S EXCEPT !.cpu.ime = TRUE], 4)
          \* "Unimplemented opcode": 0x10, 0x27, the RSTs, 0xE8, 0xF8, 0xF9 and the holes
          [] OTHER -> add_cycles(S, 4)

\* CPU.step
cpu_step(S) ==
    IF S.cpu.halted THEN add_cycles(S, 4)
    ELSE IF S.cpu.stopped THEN S
    ELSE LET fb == fetch_byte(S) IN execute_opcode(fb.S, fb.v)

----------------------------------------------------------------------------
(* interrupts.py: the poll and the dispatch.                               *)

INT_VBLANK == 0
INT_LCD == 1
INT_TIMER == 2
INT_SERIAL == 3
INT_JOYPAD == 4

VECTOR_VBLANK == 64
VECTOR_LCD == 72
VECTOR_TIMER == 80
VECTOR_SERIAL == 88
VECTOR_JOYPAD == 96

\* service_interrupt as it would be if it left IME set (the fault C5 excludes)
service_interrupt_ime_on(S, interrupt_bit, vector) ==
    LET f  == BitClear(S.ic.interrupt_flag, 2 ^ interrupt_bit)
        S2 == write_byte([S EXCEPT !.ic.interrupt_flag = f], \hFF0F, f)
        S4 == push_word([S2 EXCEPT !.cpu.halted = FALSE], S2.cpu.pc)
    IN  add_cycles([S4 EXCEPT !.cpu.pc = vector], 20)

\* service_interrupt as it would be if it set PC before the push
service_interrupt_push_vector(S, interrupt_bit, vector) ==
    LET f  == BitClear(S.ic.interrupt_flag, 2 ^ interrupt_bit)
        S1 == [S EXCEPT !.cpu.ime = FALSE, !.ic.interrupt_flag = f]
        S2 == write_byte(S1, \hFF0F, f)
        S3 == [S2 EXCEPT !.cpu.halted = FALSE, !.cpu.pc = vector]
    IN  add_cycles(push_word(S3, S3.cpu.pc), 20)

\* service_interrupt as it would be if it acknowledged every request at once
service_interrupt_clear_all(S, interrupt_bit, vector) ==
    LET S1 == [S EXCEPT !.cpu.ime = FALSE, !.ic.interrupt_flag = 0]
        S2 == write_byte(S1, \hFF0F, 0)
        S3 == [S2 EXCEPT !.cpu.halted = FALSE]
        S4 == push_word(S3, S3.cpu.pc)
    IN  add_cycles([S4 EXCEPT !.cpu.pc = vector], 20)

\* Interrupts.service_interrupt
service_interrupt(S, interrupt_bit, vector) ==
    LET f  == BitClear(S.ic.interrupt_flag, 2 ^ interrupt_bit)
        S1 == [S EXCEPT !.cpu.ime = FALSE, !.ic.interrupt_flag = f]
        S2 == write_byte(S1, \hFF0F, f)
        S3 == [S2 EXCEPT !.cpu.halted = FALSE]
        S4 == push_word(S3, S3.cpu.pc)
    IN  add_cycles([S4 EXCEPT !.cpu.pc = vector], 20)

\* handle_interrupts as it would be with the priority ladder upside down
\* (the fault C6 excludes)
handle_interrupts_reversed(S) ==
    IF ~S.cpu.ime THEN S
    ELSE LET pending == BitAnd(S.ic.interrupt_flag, S.ic.interrupt_enable)
         IN  IF pending = 0 THEN S
             ELSE IF Bit(pending, INT_JOYPAD) = 1 THEN service_interrupt(S, INT_JOYPAD, VECTOR_JOYPAD)
             ELSE IF Bit(pending, INT_SERIAL) = 1 THEN service_interrupt(S, INT_SERIAL, VECTOR_SERIAL)
             ELSE IF Bit(pending, INT_TIMER) = 1 THEN service_interrupt(S, INT_TIMER, VECTOR_TIMER)
             ELSE IF Bit(pending, INT_LCD) = 1 THEN service_interrupt(S, INT_LCD, VECTOR_LCD)
             ELSE service_interrupt(S, INT_VBLANK, VECTOR_VBLANK)

\* Interrupts.handle_interrupts
handle_interrupts(S) ==
    IF ~S.cpu.ime THEN S
    ELSE LET pending == BitAnd(S.ic.interrupt_flag, S.ic.interrupt_enable)
         IN  IF pending = 0 THEN S
             ELSE IF Bit(pending, INT_VBLANK) = 1 THEN service_interrupt(S, INT_VBLANK, VECTOR_VBLANK)
             ELSE IF Bit(pending, INT_LCD) = 1 THEN service_interrupt(S, INT_LCD, VECTOR_LCD)
             ELSE IF Bit(pending, INT_TIMER) = 1 THEN service_interrupt(S, INT_TIMER, VECTOR_TIMER)
             ELSE IF Bit(pending, INT_SERIAL) = 1 THEN service_interrupt(S, INT_SERIAL, VECTOR_SERIAL)
             ELSE IF Bit(pending, INT_JOYPAD) = 1 THEN service_interrupt(S, INT_JOYPAD, VECTOR_JOYPAD)
             ELSE S

----------------------------------------------------------------------------
(* ppu.py: the mode machine.  The screen buffer is not part of the model;  *)
(* of render_scanline the model keeps the registers it latches.            *)
(* A method of the PPU or the timer that may raise an interrupt returns    *)
(* [P |-> the component after the call, S |-> the bus state after it].     *)

MODE_HBLANK == 0
MODE_VBLANK == 1
MODE_OAM == 2
MODE_DRAW == 3

\* PPU.render_scanline
render_scanline(P, S) ==
    LET lcdc == read_byte(S, \hFF40)
    IN  IF BitAnd(lcdc, 128) = 0
        THEN [P EXCEPT !.lcdc = lcdc]
        ELSE [P EXCEPT !.lcdc = lcdc,
                       !.scy = read_byte(S, \hFF42),
                       !.scx = read_byte(S, \hFF43),
                       !.bgp = read_byte(S, \hFF47)]

\* the accumulator as it would be if a mode transition reset it (the
\* fault C3 excludes)
ppu_consume_all(P, n) == [P EXCEPT !.cycles = 0]

\* the accumulator as it would be if a mode transition took nothing out of it
ppu_consume_none(P, n) == P

\* PPU.step: self.cycles -= n, at a mode transition
ppu_consume(P, n) == [P EXCEPT !.cycles = @ - n]

\* PPU.step as it would be if V-blank were entered after line 144
ppu_step_late_vblank(P, S, cpu_cycles) ==
    LET c == P.cycles + cpu_cycles
        P0 == [P EXCEPT !.cycles = c]
    IN  IF P.mode = MODE_OAM
        THEN IF c >= 80
             THEN [P |-> [ppu_consume(P0, 80) EXCEPT !.mode = MODE_DRAW], S |-> S]
             ELSE [P |-> P0, S |-> S]
        ELSE IF P.mode = MODE_DRAW
        THEN IF c >= 172
             THEN [P |-> render_scanline([ppu_consume(P0, 172) EXCEPT !.mode = MODE_HBLANK], S),
                   S |-> S]
             ELSE [P |-> P0, S |-> S]
        ELSE IF P.mode = MODE_HBLANK
        THEN IF c >= 204
             THEN LET line == P.line + 1
                      S1 == write_byte(S, \hFF44, line)
                  IN  IF line = 145
                      THEN [P |-> [ppu_consume(P0, 204) EXCEPT !.line = line,
                                             !.mode = MODE_VBLANK, !.vblank_flag = TRUE],
                            S |-> request_interrupt(S1, INT_VBLANK)]
                      ELSE [P |-> [ppu_consume(P0, 204) EXCEPT !.line = line, !.mode = MODE_OAM],
                            S |-> S1]
             ELSE [P |-> P0, S |-> S]
        ELSE IF P.mode = MODE_VBLANK
        THEN IF c >= 456
             THEN LET line == P.line + 1
                      S1 == write_byte(S, \hFF44, line)
                  IN  IF line > 153
                      THEN [P |-> [ppu_consume(P0, 456) EXCEPT !.line = 0,
                                             !.mode = MODE_OAM, !.vblank_flag = FALSE],
                            S |-> write_byte(S1, \hFF44, 0)]
                      ELSE [P |-> [ppu_consume(P0, 456) EXCEPT !.line = line], S |-> S1]
             ELSE [P |-> P0, S |-> S]
        ELSE [P |-> P0, S |-> S]

\* PPU.step
ppu_step(P, S, cpu_cycles) ==
    LET c == P.cycles + cpu_cycles
        P0 == [P EXCEPT !.cycles = c]
    IN  IF P.mode = MODE_OAM
        THEN IF c >= 80
             THEN [P |-> [ppu_consume(P0, 80) EXCEPT !.mode = MODE_DRAW], S |-> S]
             ELSE [P |-> P0, S |-> S]
        ELSE IF P.mode = MODE_DRAW
        THEN IF c >= 172
             THEN [P |-> render_scanline([ppu_consume(P0, 172) EXCEPT !.mode = MODE_HBLANK], S),
                   S |-> S]
             ELSE [P |-> P0, S |-> S]
        ELSE IF P.mode = MODE_HBLANK
        THEN IF c >= 204
             THEN LET line == P.line + 1
                      S1 == write_byte(S, \hFF44, line)
                  IN  IF line = 144
                      THEN [P |-> [ppu_consume(P0, 204) EXCEPT !.line = line,
                                             !.mode = MODE_VBLANK, !.vblank_flag = TRUE],
                            S |-> request_interrupt(S1, INT_VBLANK)]
                      ELSE [P |-> [ppu_consume(P0, 204) EXCEPT !.line = line, !.mode = MODE_OAM],
                            S |-> S1]
             ELSE [P |-> P0, S |-> S]
        ELSE IF P.mode = MODE_VBLANK
        THEN IF c >= 456
             THEN LET line == P.line + 1
                      S1 == write_byte(S, \hFF44, line)
                  IN  IF line > 153
                      THEN [P |-> [ppu_consume(P0, 456) EXCEPT !.line = 0,
                                             !.mode = MODE_OAM, !.vblank_flag = FALSE],
                            S |-> write_byte(S1, \hFF44, 0)]
                      ELSE [P |-> [ppu_consume(P0, 456) EXCEPT !.line = line], S |-> S1]
             ELSE [P |-> P0, S |-> S]
        ELSE [P |-> P0, S |-> S]

----------------------------------------------------------------------------
(* timer.py                                                                *)

\* the frequency table as it would be with 64 cycles per tick for TAC
\* select 1 (the fault C9 excludes)
tima_frequencies_64(index) ==
    CASE index = 0 -> 1024 [] index = 1 -> 64 [] index = 2 -> 16 [] index = 3 -> 256

\* Timer.tima_frequencies[index]
tima_frequencies(index) ==
    CASE index = 0 -> 1024 [] index = 1 -> 16 [] index = 2 -> 64 [] index = 3 -> 256

\* the DIV loop as it would be with an if in place of the while
div_loop_once(T) ==
    IF T.div_counter >= 256
    THEN [T EXCEPT !.div_counter = @ - 256, !.div = (@ + 1) % 256]
    ELSE T

\* Timer.step: the DIV loop
RECURSIVE div_loop(_)
div_loop(T) ==
    IF T.div_counter >= 256
    THEN div_loop([T EXCEPT !.div_counter = @ - 256, !.div = (@ + 1) % 256])
    ELSE T

\* the TIMA loop as it would be if an overflow left TIMA at 0x00
RECURSIVE tima_loop_no_reload(_, _, _)
tima_loop_no_reload(T, S, cycles_per_tick) ==
    IF T.tima_counter >= cycles_per_tick
    THEN LET t == (T.tima + 1) % 256
             T1 == [T EXCEPT !.tima_counter = @ - cycles_per_tick, !.tima = t]
         IN  IF t = 0
             THEN tima_loop_no_reload(T1, request_interrupt(S, INT_TIMER), cycles_per_tick)
             ELSE tima_loop_no_reload(T1, S, cycles_per_tick)
    ELSE [P |-> T, S |-> S]

\* Timer.step: the TIMA loop
RECURSIVE tima_loop(_, _, _)
tima_loop(T, S, cycles_per_tick) ==
    IF T.tima_counter >= cycles_per_tick
    THEN LET t == (T.tima + 1) % 256
             T1 == [T EXCEPT !.tima_counter = @ - cycles_per_tick, !.tima = t]
         IN  IF t = 0
             THEN tima_loop([T1 EXCEPT !.tima = T.tma], request_interrupt(S, INT_TIMER),
                            cycles_per_tick)
             ELSE tima_loop(T1, S, cycles_per_tick)
    ELSE [P |-> T, S |-> S]

\* Timer.step
timer_step(T, S, cycles) ==
    LET T1 == div_loop([T EXCEPT !.div_counter = @ + cycles])
    IN  IF T1.timer_enabled
        THEN tima_loop([T1 EXCEPT !.tima_counter = @ + cycles], S,
                       tima_frequencies(BitAnd(T1.tac, 3)))
        ELSE [P |-> T1, S |-> S]

\* Timer.read_register
timer_read_register(T, address) ==
    IF address = \hFF04 THEN T.div
    ELSE IF address = \hFF05 THEN T.tima
    ELSE IF address = \hFF06 THEN T.tma
    ELSE IF address = \hFF07 THEN BitOr(T.tac, 248)
    ELSE 255

\* write_register as it would be if enabling the timer kept the accumulator
timer_write_register_keep(T, address, val) ==
    LET value == val % 256
    IN  IF address = \hFF04 THEN [T EXCEPT !.div = 0, !.div_counter = 0]
        ELSE IF address = \hFF05 THEN [T EXCEPT !.tima = value]
        ELSE IF address = \hFF06 THEN [T EXCEPT !.tma = value]
        ELSE IF address = \hFF07
             THEN [T EXCEPT !.tac = BitAnd(value, 7), !.timer_enabled = (BitAnd(value, 4) # 0)]
        ELSE T

\* Timer.write_register
timer_write_register(T, address, val) ==
    LET value == val % 256
    IN  IF address = \hFF04 THEN [T EXCEPT !.div = 0, !.div_counter = 0]
        ELSE IF address = \hFF05 THEN [T EXCEPT !.tima = value]
        ELSE IF address = \hFF06 THEN [T EXCEPT !.tma = value]
        ELSE IF address = \hFF07
             THEN LET en == BitAnd(value, 4) # 0
                  IN  [T EXCEPT !.tac = BitAnd(value, 7), !.timer_enabled = en,
                                !.tima_counter = IF ~T.timer_enabled /\ en THEN 0 ELSE @]
        ELSE T

----------------------------------------------------------------------------
(* cartridge.py: rom_data is the ROM image (a sparse array) and rom_len    *)
(* its length, len(self.rom_data).                                         *)

CART_MBC1 == 1
CART_MBC1_RAM == 2
CART_MBC1_RAM_BATTERY == 3

\* Cartridge.read_rom
read_rom(c, address) ==
    IF address < \h4000
    THEN IF address < c.rom_len THEN Get(c.rom_data, address) ELSE 0
    ELSE IF address < \h8000
    THEN LET bank_address == c.rom_bank * \h4000 + (address - \h4000)
         IN  IF bank_address < c.rom_len THEN Get(c.rom_data, bank_address) ELSE 0
    ELSE 0

\* write_rom without the bank-0 rule: the low five bits are taken as they are
write_rom_bank0(c, address, value) ==
    IF address >= \h2000 /\ address < \h4000
    THEN [c EXCEPT !.rom_bank = BitAnd(value, 31)]
    ELSE c

\* Cartridge.write_rom
write_rom(c, address, value) ==
    IF c.cart_type \in {CART_MBC1, CART_MBC1_RAM, CART_MBC1_RAM_BATTERY}
    THEN IF address < \h2000 THEN [c EXCEPT !.ram_enabled = (BitAnd(value, 15) = 10)]
         ELSE IF address < \h4000
              THEN LET bank == BitAnd(value, 31)
                   IN  [c EXCEPT !.rom_bank = IF bank = 0 THEN 1 ELSE bank]
         ELSE IF address < \h6000 THEN [c EXCEPT !.ram_bank = BitAnd(value, 3)]
         ELSE IF address < \h8000 THEN [c EXCEPT !.banking_mode = BitAnd(value, 1)]
         ELSE c
    ELSE c

\* Cartridge.get_rom_data: rom_data[:0x8000], as [data, len]; 32 KiB of zeros
\* when rom_data is None or empty
get_rom_data(c) ==
    LET n == IF c.rom_len < \h8000 THEN c.rom_len ELSE \h8000
    IN  IF c.rom_len = 0 THEN [data |-> EmptyArr, len |-> \h8000]
        ELSE [data |-> [k \in {j \in DOMAIN c.rom_data : j < n} |-> c.rom_data[k]], len |-> n]

\* Memory.load_rom: the bytes of the image overwrite the front of Memory.rom
load_rom(m, rd) ==
    [m EXCEPT !.rom = [k \in {j \in DOMAIN m.rom : j >= rd.len} \cup DOMAIN rd.data |->
                          IF k < rd.len THEN rd.data[k] ELSE m.rom[k]]]

\* Cartridge.load_rom with a readable file of rom_len bytes, then parse_header
cartridge_load_rom(c, image, rom_len) ==
    LET c1 == [c EXCEPT !.rom_data = image, !.rom_len = rom_len, !.rom_size = rom_len]
        ram_size_code == Get(image, \h0149)
        ram_sizes == <<0, 2048, 8192, 32768, 131072, 65536>>
    IN  IF rom_len < \h150 THEN c1
        ELSE [c1 EXCEPT !.cart_type = Get(image, \h0147),
                        !.rom_size = 32768 * (2 ^ Get(image, \h0148)),
                        !.ram_size = IF ram_size_code < 6 THEN ram_sizes[ram_size_code + 1] ELSE 0]

----------------------------------------------------------------------------
(* The state after construction: CPU.__init__, Memory.__init__,            *)
(* Interrupts.__init__, Input.__init__, APU.__init__ (audio available),    *)
(* PPU.__init__, Timer.__init__, Cartridge.__init__.                       *)

CPU0 ==
    [a |-> 1, f |-> 176, b |-> 0, c |-> 19, d |-> 0, e |-> 216, h |-> 1, l |-> 77,
     sp |-> 65534, pc |-> 256, ime |-> FALSE, halted |-> FALSE, stopped |-> FALSE,
     cycles |-> 0]

Memory0 ==
    [rom |-> EmptyArr, vram |-> EmptyArr, eram |-> EmptyArr, wram |-> EmptyArr,
     oam |-> EmptyArr, io |-> EmptyArr, hram |-> EmptyArr, ie |-> 0]

Interrupts0 ==
    [interrupt_flag |-> 0, interrupt_enable |-> 0, nreq |-> [i \in 0..4 |-> 0]]

Input0 ==
    [buttons |-> [b \in 0..7 |-> FALSE], p1 |-> 255,
     select_buttons |-> FALSE, select_dpad |-> FALSE]

APU0 ==
    [enabled |-> TRUE, audio_enabled |-> TRUE, sound_enabled |-> TRUE,
     ch_enabled |-> [n \in 1..4 |-> FALSE], dac_enabled |-> [n \in 1..4 |-> FALSE],
     length_counter |-> [n \in 1..4 |-> 0], length_enabled |-> [n \in 1..4 |-> FALSE],
     frame_sequencer_counter |-> 0, frame_sequencer_step |-> 0, cycle_counter |-> 0]

PPU0 ==
    [mode |-> MODE_OAM, line |-> 0, cycles |-> 0, vblank_flag |-> FALSE,
     lcdc |-> 145, scy |-> 0, scx |-> 0, bgp |-> 252]

Timer0 ==
    [div |-> 0, tima |-> 0, tma |-> 0, tac |-> 0, div_counter |-> 0, tima_counter |-> 0,
     timer_enabled |-> FALSE]

Cartridge0 ==
    [rom_data |-> EmptyArr, rom_len |-> 0, rom_size |-> 0, ram_size |-> 0, cart_type |-> 0,
     rom_bank |-> 1, ram_bank |-> 0, ram_enabled |-> FALSE, banking_mode |-> 0]

\* What an observation keeps of the state before an operation.
Snap(S) ==
    [pc |-> S.cpu.pc, sp |-> S.cpu.sp, ime |-> S.cpu.ime, halted |-> S.cpu.halted,
     cycles |-> S.cpu.cycles,
     interrupt_flag |-> S.ic.interrupt_flag, interrupt_enable |-> S.ic.interrupt_enable]

\* the orchestrator has not run; nothing has been observed
Frame0 == [pc |-> "idle", frame_cycles |-> 0, frames |-> 0]

Obs0 ==
    [steps |-> 0, reqs |-> 0, cpu_start |-> 0, ppu_sum |-> 0, timer_sum |-> 0,
     total |-> 0, log |-> <<>>, req |-> {}, pre |-> Snap([cpu |-> CPU0, ic |-> Interrupts0]),
     stepped |-> [opcode |-> -1, ime |-> FALSE, pending |-> 0]]

\* The objects on the bus, as the operators take them, and their assignment.
Sys == [cpu |-> cpu, mem |-> mem, ic |-> ic, inp |-> inp, apu |-> apu]

SetSys(S) ==
    /\ cpu' = S.cpu
    /\ mem' = S.mem
    /\ ic' = S.ic
    /\ inp' = S.inp
    /\ apu' = S.apu

\* A ROM image: the bytes of each segment <<base, bytes>> on a zero fill.
Place(arr, base, bytes) ==
    LET span == base .. (base + Len(bytes) - 1)
    IN  [k \in ((DOMAIN arr) \ span) \cup {j \in span : bytes[j - base + 1] # 0} |->
            IF k \in span THEN bytes[k - base + 1] ELSE arr[k]]

\* GameBoy.__init__ then GameBoy.load_rom of a 32 KiB image with the
\* program at the entry point 0x0100
PowerOn(program) ==
    LET image == Place(EmptyArr, \h0100, program)
        c == cartridge_load_rom(Cartridge0, image, \h8000)
    IN  /\ cart = c
        /\ mem = load_rom(Memory0, get_rom_data(c))
        /\ cpu = CPU0
        /\ ic = Interrupts0
        /\ inp = Input0
        /\ apu = APU0
        /\ ppu = PPU0
        /\ timer = Timer0
        /\ frame = Frame0
        /\ obs = Obs0
        /\ last = [op |-> "init", arg |-> 0]

----------------------------------------------------------------------------
(* SpecCPU: CPU.step called repeatedly from power-on, over programs made   *)
(* of a setup and one instruction under test: every primary opcode and     *)
(* every CB opcode, with two choices of operand bytes.                     *)

MaxSteps == 4

CpuSetups ==
    { <<>>,
      <<1, 255, 255, 197>>,       \* LD BC,0xFFFF ; PUSH BC
      <<175>>,                    \* XOR A
      <<33, 15, 192, 54, 255>>,   \* LD HL,0xC00F ; LD (HL),0xFF
      <<60>> }                    \* INC A (Z cleared)

CpuOperands == { <<15, 192>>, <<255, 255>> }

CpuPrograms ==
    { s \o <<op>> \o o : s \in CpuSetups, op \in 0..255, o \in CpuOperands }
    \cup { s \o <<203, op>> : s \in CpuSetups, op \in 0..255 }

InitCPU == \E p \in CpuPrograms : PowerOn(p)

\* the opcode CPU.step is about to fetch (-1: halted or stopped, no fetch)
NextOpcode == IF cpu.halted \/ cpu.stopped THEN -1 ELSE read_byte(Sys, cpu.pc)

\* what is known of a CPU.step before it runs
Stepping ==
    [opcode |-> NextOpcode, ime |-> cpu.ime,
     pending |-> BitAnd(ic.interrupt_flag, ic.interrupt_enable)]

\* one call of CPU.step
CpuStep ==
    /\ obs.steps < MaxSteps
    /\ SetSys(cpu_step(Sys))
    /\ obs' = [obs EXCEPT !.steps = @ + 1, !.pre = Snap(Sys), !.stepped = Stepping]
    /\ last' = [op |-> "CPU.step", arg |-> NextOpcode]
    /\ UNCHANGED <<ppu, timer, cart, frame>>

NextCPU == CpuStep

SpecCPU == InitCPU /\ [][NextCPU]_vars

\* C1: at every instruction boundary of a run of CPU.step from power-on,
\* the low four bits of register F are zero.
C1_FLowNibbleZero == cpu.f % 16 = 0

\* C1 witness: POP AF has just popped a stack word whose low byte had low
\* bits set, and F holds the high nibble of that byte.
C1_Witness ==
    /\ last.op = "CPU.step" /\ last.arg = 241
    /\ read_byte(Sys, cpu.sp - 2) = 255
    /\ cpu.f = 240

----------------------------------------------------------------------------
(* SpecPPU: PPU.step fed cycle counts from {4, 8, ..., 24}, from power-on. *)
(* obs.total is the sum of the counts fed so far.                          *)

MaxPpuCycles == 150000

PpuDeltas == {4, 8, 12, 16, 20, 24}

InitPPU == PowerOn(<<>>)

\* one call of PPU.step
PpuStep(cpu_cycles) ==
    LET r == ppu_step(ppu, Sys, cpu_cycles)
    IN  /\ obs.total < MaxPpuCycles
        /\ ppu' = r.P
        /\ SetSys(r.S)
        /\ obs' = [obs EXCEPT !.total = @ + cpu_cycles, !.pre = Snap(Sys)]
        /\ last' = [op |-> "PPU.step", arg |-> cpu_cycles]
        /\ UNCHANGED <<timer, cart, frame>>

NextPPU == \E d \in PpuDeltas : PpuStep(d)

SpecPPU == InitPPU /\ [][NextPPU]_vars

\* cycles in a frame (154 lines of 456) and up to V-blank (144 lines)
FrameLength == 154 * 456
VBlankStart == 144 * 456

\* C3: fed counts from {4,...,24}, the PPU has requested V-blank once for
\* every 70224 cycles, first in the step in which the total reaches 144*456;
\* LY and the mode are those of the position total mod 70224 (so LY is 0
\* with mode 2 from the step in which the total reaches a multiple of
\* 70224); and the accumulator holds exactly the cycles since the last mode
\* change, so that no cycle is lost or gained.
C3_PpuTiming ==
    LET t == obs.total
        p == t % FrameLength
        q == p % 456
    IN  /\ ic.nreq[INT_VBLANK] = IF t < VBlankStart THEN 0
                                 ELSE ((t - VBlankStart) \div FrameLength) + 1
        /\ (t >= VBlankStart) = (Bit(ic.interrupt_flag, INT_VBLANK) = 1)
        /\ ppu.line = p \div 456
        /\ ppu.mode = IF p >= VBlankStart THEN MODE_VBLANK
                      ELSE IF q < 80 THEN MODE_OAM
                      ELSE IF q < 252 THEN MODE_DRAW
                      ELSE MODE_HBLANK
        /\ ppu.cycles = IF p >= VBlankStart THEN q
                        ELSE IF q < 80 THEN q
                        ELSE IF q < 252 THEN q - 80
                        ELSE q - 252

\* C3 witness: the step in which the total reaches the second multiple of
\* 70224 with a count that overshoots it: LY is back to 0 in mode 2, and
\* V-blank has been requested twice.
C3_Witness ==
    /\ last.op = "PPU.step"
    /\ obs.total > 2 * FrameLength
    /\ obs.total - last.arg < 2 * FrameLength
    /\ ppu.line = 0 /\ ppu.mode = MODE_OAM
    /\ ic.nreq[INT_VBLANK] = 2

----------------------------------------------------------------------------
(* SpecTimer: Timer.write_register and Timer.step called on a timer fresh  *)
(* from construction.  obs.log is the sequence of the calls made.          *)

MaxTimerOps == 6

TimerWrites == { <<65287, 5>>, <<65286, 254>>, <<65285, 253>> }

TimerSteps == {16, 64}

InitTimer == PowerOn(<<>>)

\* Timer.write_register(address, value)
TimerWrite(address, value) ==
    /\ Len(obs.log) < MaxTimerOps
    /\ timer' = timer_write_register(timer, address, value)
    /\ obs' = [obs EXCEPT !.log = Append(@, <<"write", address, value>>), !.pre = Snap(Sys)]
    /\ last' = [op |-> "Timer.write_register", arg |-> address]
    /\ UNCHANGED <<cpu, mem, ic, inp, apu, ppu, cart, frame>>

\* Timer.step(cycles)
TimerStep(cycles) ==
    LET r == timer_step(timer, Sys, cycles)
    IN  /\ Len(obs.log) < MaxTimerOps
        /\ timer' = r.P
        /\ SetSys(r.S)
        /\ obs' = [obs EXCEPT !.log = Append(@, <<"step", cycles, 0>>), !.pre = Snap(Sys)]
        /\ last' = [op |-> "Timer.step", arg |-> cycles]
        /\ UNCHANGED <<ppu, cart, frame>>

NextTimer ==
    \/ \E w \in TimerWrites : TimerWrite(w[1], w[2])
    \/ \E c \in TimerSteps : TimerStep(c)

SpecTimer == InitTimer /\ [][NextTimer]_vars

\* TAC=0x05, TMA=0xFE and TIMA=0xFD written, in any order
TimerConfigs ==
    { [i \in 1..3 |-> <<"write", x[i][1], x[i][2]>>] :
        x \in { y \in TimerWrites \X TimerWrites \X TimerWrites :
                   {y[1], y[2], y[3]} = TimerWrites } }

\* the log is a configuration followed by n steps of the given cycles
AfterSteps(n, cycles) ==
    \E cfg \in TimerConfigs : obs.log = cfg \o [i \in 1..n |-> <<"step", cycles, 0>>]

TimerIF == Bit(ic.interrupt_flag, INT_TIMER)

\* C9 (as stated): after TAC=0x05, TMA=0xFE, TIMA=0xFD, 64 cycles give
\* TIMA=0xFE, 64 more 0xFF, 64 more 0xFE with IF bit 2 set and not before.
C9_Stated ==
    /\ AfterSteps(1, 64) => timer.tima = 254 /\ TimerIF = 0
    /\ AfterSteps(2, 64) => timer.tima = 255 /\ TimerIF = 0
    /\ AfterSteps(3, 64) => timer.tima = 254 /\ TimerIF = 1

\* C9 (amended): TAC=0x05 selects one tick per 16 cycles.  After TAC=0x05,
\* TMA=0xFE, TIMA=0xFD, 16 cycles give TIMA=0xFE, 16 more 0xFF, 16 more
\* 0xFE (reloaded from TMA) with IF bit 2 set and not before; one step of
\* 64 cycles is four ticks: TIMA=0xFF with IF bit 2 already set.
C9_Tick16 ==
    /\ AfterSteps(1, 16) => timer.tima = 254 /\ TimerIF = 0
    /\ AfterSteps(2, 16) => timer.tima = 255 /\ TimerIF = 0
    /\ AfterSteps(3, 16) => timer.tima = 254 /\ TimerIF = 1
    /\ AfterSteps(1, 64) => timer.tima = 255 /\ TimerIF = 1

\* C9 witness: the third 16-cycle step after the configuration has run
\* and reloaded TIMA.
C9_Witness ==
    /\ AfterSteps(3, 16)
    /\ last.op = "Timer.step"
    /\ timer.tima = timer.tma /\ timer.tma = 254
    /\ ic.nreq[INT_TIMER] = 1

----------------------------------------------------------------------------
(* SpecCart: a 128 KiB cartridge image loaded (GameBoy.load_rom), then     *)
(* writes into 0x0000-0x7FFF, made by the CPU through Memory.write_byte    *)
(* or made on the cartridge itself (Cartridge.write_rom).  obs.log is the  *)
(* sequence of the writes.                                                 *)

MaxCartOps == 3

\* An image whose banks differ in their first byte: bank b starts with
\* 0x10 + b.  Byte 0x0147 is the cartridge type, byte 0x0148 the size code.
CartImage(cart_type) ==
    LET banks == [k \in {b * 16384 : b \in 0..7} |-> 16 + (k \div 16384)]
        typed == IF cart_type = 0 THEN banks ELSE Put(banks, 327, cart_type)
    IN  Put(typed, 328, 2)

CartTypes == {0, CART_MBC1}

CartAddresses == {0, 8192, 24576}

CartValues == {0, 5, 10}

InitCart ==
    \E t \in CartTypes :
        LET c == cartridge_load_rom(Cartridge0, CartImage(t), 131072)
        IN  /\ cart = c
            /\ mem = load_rom(Memory0, get_rom_data(c))
            /\ cpu = CPU0
            /\ ic = Interrupts0
            /\ inp = Input0
            /\ apu = APU0
            /\ ppu = PPU0
            /\ timer = Timer0
            /\ frame = Frame0
            /\ obs = Obs0
            /\ last = [op |-> "init", arg |-> 0]

\* Memory.write_byte(address, value), the write a CPU store makes
BusWrite(address, value) ==
    /\ Len(obs.log) < MaxCartOps
    /\ SetSys(write_byte(Sys, address, value))
    /\ obs' = [obs EXCEPT !.log = Append(@, <<"bus", address, value>>), !.pre = Snap(Sys)]
    /\ last' = [op |-> "Memory.write_byte", arg |-> address]
    /\ UNCHANGED <<ppu, timer, cart, frame>>

\* Cartridge.write_rom(address, value)
CartWrite(address, value) ==
    /\ Len(obs.log) < MaxCartOps
    /\ cart' = write_rom(cart, address, value)
    /\ obs' = [obs EXCEPT !.log = Append(@, <<"cart", address, value>>), !.pre = Snap(Sys)]
    /\ last' = [op |-> "Cartridge.write_rom", arg |-> address]
    /\ UNCHANGED <<cpu, mem, ic, inp, apu, ppu, timer, frame>>

NextCart ==
    \/ \E a \in CartAddresses, v \in CartValues : BusWrite(a, v)
    \/ \E a \in CartAddresses, v \in CartValues : CartWrite(a, v)

SpecCart == InitCart /\ [][NextCart]_vars

\* the bank the bus writes of the log select: the low five bits of the
\* last value written to 0x2000-0x3FFF, 0 read as 1; bank 1 before any
RECURSIVE SelectedBank(_)
SelectedBank(log) ==
    IF log = <<>> THEN 1
    ELSE LET w == log[Len(log)]
         IN  IF w[1] = "bus" /\ w[2] >= 8192 /\ w[2] < 16384
             THEN (IF BitAnd(w[3], 31) = 0 THEN 1 ELSE BitAnd(w[3], 31))
             ELSE SelectedBank(SubSeq(log, 1, Len(log) - 1))

\* C10 (as stated): with an MBC1 cartridge, after the bus writes 0x0A to
\* 0x0000 and 0x05 to 0x2000, a bus read of 0x4000 returns the byte at
\* offset 0x14000 of the image; in general a bus read of 0x4000+k returns
\* image byte bank*0x4000+k of the bank the bus writes selected.
C10_Stated ==
    cart.cart_type = CART_MBC1 =>
        /\ obs.log = << <<"bus", 0, 10>>, <<"bus", 8192, 5>> >>
               => read_byte(Sys, 16384) = Get(cart.rom_data, 81920)
        /\ \A k \in {0, 1, 16383} :
               read_byte(Sys, 16384 + k) = Get(cart.rom_data, SelectedBank(obs.log) * 16384 + k)

----------------------------------------------------------------------------
(* SpecIC: the CPU and the interrupt controller in the order of the        *)
(* orchestrator loop: CPU.step, then the devices' requests (PPU.step and   *)
(* Timer.step call request_interrupt there; here any device may), then     *)
(* the poll handle_interrupts.  obs.req is the set of interrupts requested *)
(* since the last CPU.step, obs.pre the registers before the last call.    *)

MaxICSteps == 5
MaxReqs == 2

\* programs that halt the CPU
IcHaltPrograms ==
    \* LD A,ie ; LDH (0xFF),A ; HALT ; INC A
    { <<62, ie, 224, 255, 118, 60>> : ie \in {1, 4, 31} }
    \* LD A,0x1F ; LDH (0xFF),A ; EI ; HALT ; INC A
    \cup { <<62, 31, 224, 255, 251, 118, 60>> }

IcPrograms ==
    \* LD A,ie ; LDH (0xFF),A ; EI
    { <<62, ie, 224, 255, 251>> : ie \in 0..31 }
    \* LD A,v ; LDH (0xFF),A ; LDH (0x0F),A ; EI
    \cup { <<62, v, 224, 255, 224, 15, 251>> : v \in 0..31 }
    \* LD SP,nn ; LD A,0x1F ; LDH (0xFF),A ; EI   with the stack on IF, on IE
    \cup { <<49, 17, 255, 62, 31, 224, 255, 251>>, <<49, 1, 0, 62, 31, 224, 255, 251>> }
    \cup IcHaltPrograms

InitIC == \E p \in IcPrograms : PowerOn(p)

\* CPU.step, at the head of a loop iteration
ICStep ==
    /\ last.op \in {"init", "handle_interrupts"}
    /\ obs.steps < MaxICSteps
    /\ SetSys(cpu_step(Sys))
    /\ obs' = [obs EXCEPT !.steps = @ + 1, !.req = {}, !.pre = Snap(Sys), !.stepped = Stepping]
    /\ last' = [op |-> "CPU.step", arg |-> NextOpcode]
    /\ UNCHANGED <<ppu, timer, cart, frame>>

\* Interrupts.request_interrupt(interrupt_bit), by a device
ICRequest(interrupt_bit) ==
    /\ last.op \in {"CPU.step", "request_interrupt"}
    /\ obs.reqs < MaxReqs
    /\ SetSys(request_interrupt(Sys, interrupt_bit))
    /\ obs' = [obs EXCEPT !.reqs = @ + 1, !.req = @ \cup {interrupt_bit}, !.pre = Snap(Sys)]
    /\ last' = [op |-> "request_interrupt", arg |-> interrupt_bit]
    /\ UNCHANGED <<ppu, timer, cart, frame>>

\* Interrupts.handle_interrupts(cpu), the poll at the instruction boundary
ICPoll ==
    /\ last.op \in {"CPU.step", "request_interrupt"}
    /\ SetSys(handle_interrupts(Sys))
    /\ obs' = [obs EXCEPT !.pre = Snap(Sys)]
    /\ last' = [op |-> "handle_interrupts", arg |-> 0]
    /\ UNCHANGED <<ppu, timer, cart, frame>>

NextIC ==
    \/ ICStep
    \/ \E i \in 0..4 : ICRequest(i)
    \/ ICPoll

SpecIC == InitIC /\ [][NextIC]_vars

\* SpecHalt: the same loop over the programs that halt.  The loop keeps
\* stepping the CPU and polling; devices need not request.
InitHalt == \E p \in IcHaltPrograms : PowerOn(p)

SpecHalt == InitHalt /\ [][NextIC]_vars /\ WF_vars(ICStep) /\ WF_vars(ICPoll)

\* the state is the one a poll has left
Polled == last.op = "handle_interrupts"

\* IF & IE before the last call
PrePending == BitAnd(obs.pre.interrupt_flag, obs.pre.interrupt_enable)

\* the lowest-numbered set bit of p # 0
Lowest(p) == CHOOSE i \in 0..4 : Bit(p, i) = 1 /\ \A j \in 0..(i - 1) : Bit(p, j) = 0

\* the two addresses a push made before the last call would write
PrePush == { (obs.pre.sp + 65535) % 65536, (obs.pre.sp + 65534) % 65536 }

\* C5 (as stated): if IME is true and IE bit i is set, the poll that
\* follows request_interrupt(i) sets PC to 0x40 + 8i, clears IF bit i and
\* clears IME.
C5_Stated ==
    Polled =>
        \A i \in obs.req :
            obs.pre.ime /\ Bit(obs.pre.interrupt_enable, i) = 1
                => /\ cpu.pc = 64 + 8 * i
                   /\ Bit(ic.interrupt_flag, i) = 0
                   /\ ~cpu.ime

\* C5 (amended): if IME is true, IE bit i is set, no lower-numbered
\* interrupt is both pending and enabled, and the stack push does not
\* write 0xFF0F, the poll that follows request_interrupt(i) sets PC to
\* 0x40 + 8i, clears IF bit i and clears IME.
C5_LowestRequested ==
    Polled =>
        \A i \in obs.req :
            (/\ obs.pre.ime
             /\ Bit(obs.pre.interrupt_enable, i) = 1
             /\ i = Lowest(PrePending)
             /\ 65295 \notin PrePush)
                => /\ cpu.pc = 64 + 8 * i
                   /\ Bit(ic.interrupt_flag, i) = 0
                   /\ ~cpu.ime

\* C5 witness: interrupt 4 was requested with IME true and IE bit 4 set,
\* and the poll has dispatched to 0x60.
C5_Witness ==
    /\ Polled
    /\ 4 \in obs.req
    /\ obs.pre.ime /\ Bit(obs.pre.interrupt_enable, 4) = 1
    /\ cpu.pc = 96 /\ ~cpu.ime /\ Bit(ic.interrupt_flag, 4) = 0

\* C6 (as stated): with IME true and IF & IE # 0, one poll services the
\* lowest-numbered set bit i of IF & IE: PC is 0x40 + 8i, bit i of IF is
\* cleared, every other IF bit and IE are unchanged.
C6_Stated ==
    Polled /\ obs.pre.ime /\ PrePending # 0 =>
        LET i == Lowest(PrePending)
        IN  /\ cpu.pc = 64 + 8 * i
            /\ ic.interrupt_flag = obs.pre.interrupt_flag - 2 ^ i
            /\ ic.interrupt_enable = obs.pre.interrupt_enable

\* C6 (amended): the same, when the stack push of the dispatch writes
\* neither 0xFF0F (IF) nor 0xFFFF (IE).
C6_LowestServiced ==
    Polled /\ obs.pre.ime /\ PrePending # 0 /\ PrePush \cap {65295, 65535} = {} =>
        LET i == Lowest(PrePending)
        IN  /\ cpu.pc = 64 + 8 * i
            /\ ic.interrupt_flag = obs.pre.interrupt_flag - 2 ^ i
            /\ ic.interrupt_enable = obs.pre.interrupt_enable

\* C6 witness: timer and joypad pending and enabled together with a
\* pending V-blank that is not enabled; the poll took the timer.
C6_Witness ==
    /\ Polled /\ obs.pre.ime
    /\ PrePending = 20
    /\ obs.pre.interrupt_flag = 21
    /\ cpu.pc = 80
    /\ ic.interrupt_flag = 17

\* C7 (as stated): halted with IME false, once IF & IE & 0x1F is not zero
\* a later CPU.step (one is still to come) finds the CPU resumed.
C7_Stated ==
    (cpu.halted /\ ~cpu.ime /\ BitAnd(ic.interrupt_flag, ic.interrupt_enable) # 0
        /\ obs.steps < MaxICSteps)
    ~> ~cpu.halted

\* The halted state with IME false is never left: no CPU.step, request or
\* poll clears cpu.halted, sets IME or moves PC, so the run that refutes C7
\* stays halted however many more steps are taken.
C7_HaltAbsorbing ==
    [][(cpu.halted /\ ~cpu.ime) =>
           (cpu'.halted /\ ~cpu'.ime /\ cpu'.pc = cpu.pc)]_vars

----------------------------------------------------------------------------
(* SpecFrame: GameBoy.emulate_frame.  One action is one pass of its loop:  *)
(* cpu.step, the stuck-CPU guard, ppu.step, timer.step, handle_interrupts, *)
(* the frame_cycles update and the safety break.  obs.cpu_start is         *)
(* cpu.cycles at the call; obs.ppu_sum and obs.timer_sum are the sums of   *)
(* the counts passed to ppu.step and timer.step since.                     *)

MaxFrames == 1

target_cycles == 70224

FramePrograms ==
    { <<62, 85, 224, 68, 0, 24, 254>>,          \* LD A,0x55 ; LDH (0x44),A ; NOP ; JR -2
      <<62, 1, 224, 255, 224, 15, 251, 24, 254>>, \* LD A,1 ; LDH (0xFF),A ; LDH (0x0F),A ; EI ; JR -2
      <<62, 1, 224, 255, 251, 24, 254>>,        \* LD A,1 ; LDH (0xFF),A ; EI ; JR -2
      <<62, 0, 24, 252>>,                       \* LD A,0 ; JR -4
      <<118>> }                                 \* HALT

InitFrame == \E p \in FramePrograms : PowerOn(p)

\* a pass of the loop that ends without the interrupt poll
frame_poll_missing(P, rt, cycles_executed) ==
    [S |-> rt.S, P |-> P, T |-> rt.P, cycles_executed |-> cycles_executed]

\* emulate_frame: the interrupt poll that ends a pass of the loop
frame_poll(P, rt, cycles_executed) ==
    [S |-> handle_interrupts(rt.S), P |-> P, T |-> rt.P,
     cycles_executed |-> cycles_executed]

\* emulate_frame: timer.step(cycles_executed), then the poll
frame_timer(rp, T, cycles_executed) ==
    frame_poll(rp.P, timer_step(T, rp.S, cycles_executed), cycles_executed)

\* emulate_frame: ppu.step(cycles_executed), then the timer
frame_ppu(S2, P, T, cycles_executed) ==
    frame_timer(ppu_step(P, S2, cycles_executed), T, cycles_executed)

\* emulate_frame: cycles_executed is measured around cpu.step; S is the state
\* before it and S1 the state after; a step of no cycles counts as 4
frame_cycles_executed(S, S1, P, T) ==
    LET executed == S1.cpu.cycles - S.cpu.cycles
    IN  frame_ppu(IF executed = 0 THEN add_cycles(S1, 4) ELSE S1, P, T,
                  IF executed = 0 THEN 4 ELSE executed)

\* emulate_frame: the body of the while loop, up to the interrupt poll
frame_iteration(S, P, T) == frame_cycles_executed(S, cpu_step(S), P, T)

\* emulate_frame is called
FrameBegin ==
    /\ frame.pc \in {"idle", "done"}
    /\ frame.frames < MaxFrames
    /\ frame' = [pc |-> "loop", frame_cycles |-> 0, frames |-> frame.frames + 1]
    /\ obs' = [obs EXCEPT !.cpu_start = cpu.cycles, !.ppu_sum = 0, !.timer_sum = 0,
                          !.pre = Snap(Sys)]
    /\ last' = [op |-> "emulate_frame", arg |-> 0]
    /\ UNCHANGED <<cpu, mem, ic, inp, apu, ppu, timer, cart>>

\* a pass of the loop that is stored without being counted
frame_store_uncounted(r) ==
    /\ SetSys(r.S)
    /\ ppu' = r.P
    /\ timer' = r.T
    /\ frame' = frame
    /\ obs' = [obs EXCEPT !.steps = @ + 1,
                          !.ppu_sum = @ + r.cycles_executed,
                          !.timer_sum = @ + r.cycles_executed,
                          !.pre = Snap(Sys), !.stepped = Stepping]

\* the result r of a pass of the loop is stored
frame_store(r) ==
    LET fc == frame.frame_cycles + r.cycles_executed
    IN  /\ SetSys(r.S)
        /\ ppu' = r.P
        /\ timer' = r.T
        /\ frame' = [frame EXCEPT !.frame_cycles = fc,
                                  !.pc = IF fc > target_cycles * 2 THEN "break" ELSE "loop"]
        /\ obs' = [obs EXCEPT !.steps = @ + 1,
                              !.ppu_sum = @ + r.cycles_executed,
                              !.timer_sum = @ + r.cycles_executed,
                              !.pre = Snap(Sys), !.stepped = Stepping]

\* one pass of the loop
FrameIteration ==
    /\ frame.pc = "loop"
    /\ frame.frame_cycles < target_cycles
    /\ frame_store(frame_iteration(Sys, ppu, timer))
    /\ last' = [op |-> "iteration", arg |-> NextOpcode]
    /\ UNCHANGED cart

\* emulate_frame: "self.apu.enabled and self.apu.audio_enabled" raises
\* AttributeError when the APU is enabled and was constructed without
\* audio_enabled
frame_apu_raises(a) == a.enabled /\ "audio_enabled" \notin DOMAIN a

\* the loop is left; the APU is stepped once and emulate_frame returns, or
\* the test of the APU's switches raises (frame.pc = "raised")
FrameEnd ==
    /\ \/ frame.pc = "break"
       \/ frame.pc = "loop" /\ frame.frame_cycles >= target_cycles
    /\ apu' = IF frame_apu_raises(apu) THEN apu
              ELSE IF apu.enabled /\ apu.audio_enabled THEN apu_step(apu, target_cycles)
              ELSE apu
    /\ frame' = [frame EXCEPT !.pc = IF frame_apu_raises(apu) THEN "raised" ELSE "done"]
    /\ obs' = [obs EXCEPT !.pre = Snap(Sys)]
    /\ last' = [op |-> "return", arg |-> 0]
    /\ UNCHANGED <<cpu, mem, ic, inp, ppu, timer, cart>>

NextFrame ==
    \/ FrameBegin
    \/ FrameIteration
    \/ FrameEnd

SpecFrame == InitFrame /\ [][NextFrame]_vars

\* C2 (as stated): when emulate_frame returns, the increase of cpu.cycles,
\* the sum of the counts passed to ppu.step and the sum of the counts
\* passed to timer.step are equal, and equal to 70224.
C2_Stated ==
    frame.pc = "done" =>
        /\ cpu.cycles - obs.cpu_start = obs.ppu_sum
        /\ obs.ppu_sum = obs.timer_sum
        /\ obs.ppu_sum = 70224

\* C4 (as stated): after every pass of the loop the byte read from 0xFF44
\* through the bus is the PPU's scanline (so a CPU write to 0xFF44 has
\* changed nothing).
C4_Stated ==
    last.op = "iteration" => read_byte(Sys, 65348) = ppu.line

\* C8 (as stated): when EI is executed with IME false while an enabled
\* interrupt is pending, the poll of the same pass does not dispatch: the
\* pass ends at the instruction after EI with nothing pushed.
C8_Stated ==
    (/\ last.op = "iteration"
     /\ obs.stepped.opcode = 251
     /\ ~obs.stepped.ime
     /\ obs.stepped.pending # 0)
        => /\ cpu.pc = (obs.pre.pc + 1) % 65536
           /\ cpu.sp = obs.pre.sp
           /\ ic.interrupt_flag = obs.pre.interrupt_flag

----------------------------------------------------------------------------
(* SpecMbc: the memory bank controller and external RAM.  A 128 KiB image  *)
(* of any cartridge type is loaded, then bytes are written through the bus *)
(* (Memory.write_byte, into the control range and into 0xA000-0xBFFF) and  *)
(* on the cartridge (Cartridge.write_rom).  last holds the write made and  *)
(* obs.pre the bank, the RAM-enable latch and the external RAM before it.  *)

MbcTypes == {0, CART_MBC1, CART_MBC1_RAM_BATTERY}

MbcControl == {0, 8192, 16383, 16384, 24576}

MbcBus == {0, 8192, 40960, 49151}

MbcValues == {0, 1, 10, 32, 69}

MbcSnap == [rom_bank |-> cart.rom_bank, ram_enabled |-> cart.ram_enabled, eram |-> mem.eram]

InitMbc ==
    \E t \in MbcTypes :
        LET c == cartridge_load_rom(Cartridge0, CartImage(t), 131072)
        IN  /\ cart = c
            /\ mem = load_rom(Memory0, get_rom_data(c))
            /\ cpu = CPU0
            /\ ic = Interrupts0
            /\ inp = Input0
            /\ apu = APU0
            /\ ppu = PPU0
            /\ timer = Timer0
            /\ frame = Frame0
            /\ obs = Obs0
            /\ last = [op |-> "init", arg |-> 0, value |-> 0]

\* Memory.write_byte(address, value), the write a CPU store makes
MbcBusWrite(address, value) ==
    /\ SetSys(write_byte(Sys, address, value))
    /\ obs' = [obs EXCEPT !.pre = MbcSnap]
    /\ last' = [op |-> "Memory.write_byte", arg |-> address, value |-> value]
    /\ UNCHANGED <<ppu, timer, cart, frame>>

\* Cartridge.write_rom(address, value)
MbcCartWrite(address, value) ==
    /\ cart' = write_rom(cart, address, value)
    /\ obs' = [obs EXCEPT !.pre = MbcSnap]
    /\ last' = [op |-> "Cartridge.write_rom", arg |-> address, value |-> value]
    /\ UNCHANGED <<cpu, mem, ic, inp, apu, ppu, timer, frame>>

NextMbc ==
    \/ \E a \in MbcBus, v \in MbcValues : MbcBusWrite(a, v)
    \/ \E a \in MbcControl, v \in MbcValues : MbcCartWrite(a, v)

SpecMbc == InitMbc /\ [][NextMbc]_vars

\* a cartridge type that write_rom treats as MBC1
IsMbc1 == cart.cart_type \in {CART_MBC1, CART_MBC1_RAM, CART_MBC1_RAM_BATTERY}

\* a value that asks for bank 0 or bank 1
AsksBankOne(value) == BitAnd(value, 31) = 0 \/ value = 1

\* C11: for an MBC1 cartridge the selected ROM bank is never 0; a write to
\* 0x2000-0x3FFF of a value whose low five bits are 0, or of 0x01, selects
\* bank 1 (on the cartridge rom_bank = 1 and 0x4000 reads image byte 0x4000;
\* through the bus 0x4000 reads image byte 0x4000); reads of 0x0000-0x3FFF
\* return the bytes of bank 0, on the cartridge and through the bus,
\* whatever the banking state.
C11_BankNeverZero ==
    IsMbc1 =>
        /\ cart.rom_bank # 0
        /\ (last.op = "Cartridge.write_rom" /\ last.arg \in 8192..16383
                /\ AsksBankOne(last.value))
               => (cart.rom_bank = 1
                   /\ read_rom(cart, 16384) = Get(cart.rom_data, 16384))
        /\ (last.op = "Memory.write_byte" /\ last.arg \in 8192..16383
                /\ AsksBankOne(last.value))
               => read_byte(Sys, 16384) = Get(cart.rom_data, 16384)
        /\ \A a \in {0, 327, 16383} :
               /\ read_rom(cart, a) = Get(cart.rom_data, a)
               /\ read_byte(Sys, a) = Get(cart.rom_data, a)

\* C11 witness: bank 10 was selected, RAM banking mode and RAM bank are
\* set, and a write of 0x20 to 0x3FFF has selected bank 1.
C11_Witness ==
    /\ cart.cart_type = CART_MBC1
    /\ last = [op |-> "Cartridge.write_rom", arg |-> 16383, value |-> 32]
    /\ obs.pre.rom_bank = 10
    /\ cart.banking_mode = 1
    /\ cart.ram_bank = 1
    /\ cart.rom_bank = 1
    /\ read_rom(cart, 0) = 16
    /\ read_rom(cart, 16384) = 17

\* C16 (as stated): while the cartridge's RAM-enable latch is off, every
\* bus read of 0xA000-0xBFFF returns 0xFF, and a bus write into
\* 0xA000-0xBFFF made with the latch off leaves external RAM unchanged.
C16_Stated ==
    /\ ~cart.ram_enabled =>
           \A a \in {40960, 49151} : read_byte(Sys, a) = 255
    /\ (last.op = "Memory.write_byte" /\ last.arg \in 40960..49151
            /\ ~obs.pre.ram_enabled)
           => mem.eram = obs.pre.eram

----------------------------------------------------------------------------
(* SpecWord: Memory.write_word(a, v) at even addresses outside ROM and the *)
(* I/O registers, from power-on.  last holds the write made;               *)
(* Memory.read_word(a) is read in the state it leaves.                     *)

MaxWordOps == 2

\* even addresses: both ends of VRAM, external RAM, work RAM, echo RAM, OAM,
\* 0xFEA0-0xFEFF and HRAM, with 0xFFFE whose high byte is 0xFFFF
WordAddresses ==
    { 32768, 40958, 40960, 49150, 49152, 57342, 57344, 65022, 65024, 65182,
      65184, 65278, 65408, 65532, 65534 }

WordValues == {0, 1, 255, 4660, 57599, 65535}

InitWord == PowerOn(<<>>)

\* Memory.write_word(address, value)
WordWrite(address, value) ==
    /\ obs.steps < MaxWordOps
    /\ SetSys(write_word(Sys, address, value))
    /\ obs' = [obs EXCEPT !.steps = @ + 1]
    /\ last' = [op |-> "Memory.write_word", arg |-> address, value |-> value]
    /\ UNCHANGED <<ppu, timer, cart, frame>>

NextWord == \E a \in WordAddresses, v \in WordValues : WordWrite(a, v)

SpecWord == InitWord /\ [][NextWord]_vars

\* C12 (as stated): for every 16-bit v and every even address a outside ROM
\* and outside the I/O registers (0xFEA0-0xFEFF and 0xFFFE included),
\* read_word(a) directly after write_word(a, v) returns v.
C12_Stated ==
    last.op = "Memory.write_word" => read_word(Sys, last.arg) = last.value

\* C12 (amended): read_word(a) directly after write_word(a, v) returns v
\* when both bytes lie in 0x8000-0xFE9F or in 0xFF80-0xFFFE; in
\* 0xFEA0-0xFEFF it returns 0; at 0xFFFE the high byte is IE and only its
\* low five bits are kept.
C12_RoundTrip ==
    last.op = "Memory.write_word" =>
        LET a == last.arg
            v == last.value
        IN  IF (a >= 32768 /\ a <= 65182) \/ (a >= 65408 /\ a <= 65532)
            THEN read_word(Sys, a) = v
            ELSE IF a >= 65184 /\ a <= 65278
            THEN read_word(Sys, a) = 0
            ELSE (a = 65534
                  /\ read_word(Sys, a) = BitAnd(v \div 256, 31) * 256 + (v % 256))

\* C12 witness: 0x1234 written to echo RAM at 0xFDFE is read back there and
\* at its work RAM mirror 0xDDFE.
C12_Witness ==
    /\ last = [op |-> "Memory.write_word", arg |-> 65022, value |-> 4660]
    /\ read_word(Sys, 65022) = 4660
    /\ read_word(Sys, 56830) = 4660
    /\ read_byte(Sys, 65023) = 18

----------------------------------------------------------------------------
(* SpecStack: CPU.step over programs LD SP,nn ; LD rr,v ; PUSH rr ; POP rr' *)
(* for every pair of PUSH and POP opcodes; AF is loaded first through      *)
(* PUSH BC ; POP AF.  The stack lies in work RAM or HRAM.                  *)

MaxStackSteps == 6

StackPointers == {65534, 65535, 65410, 53248, 49154, 57344}

StackValues == {0, 255, 4660, 43981, 65535}

\* the opcodes PUSH BC/DE/HL/AF and POP BC/DE/HL/AF
PushOps == {197, 213, 229, 245}
PopOps == {193, 209, 225, 241}

StackPrograms ==
    { <<49, sp % 256, sp \div 256>> \o load \o <<pop>> :
        sp \in StackPointers, pop \in PopOps,
        load \in { <<1, v % 256, v \div 256, 197>> : v \in StackValues }
             \cup { <<17, v % 256, v \div 256, 213>> : v \in StackValues }
             \cup { <<33, v % 256, v \div 256, 229>> : v \in StackValues }
             \cup { <<1, v % 256, v \div 256, 197, 241, 245>> : v \in StackValues } }

InitStack == \E p \in StackPrograms : PowerOn(p)

\* one call of CPU.step
StackStep ==
    /\ obs.steps < MaxStackSteps
    /\ SetSys(cpu_step(Sys))
    /\ obs' = [obs EXCEPT !.steps = @ + 1, !.pre = Snap(Sys), !.stepped = Stepping]
    /\ last' = [op |-> "CPU.step", arg |-> NextOpcode]
    /\ UNCHANGED <<ppu, timer, cart, frame>>

NextStack == StackStep

SpecStack == InitStack /\ [][NextStack]_vars

\* the register pair k of a CPU record: 0 BC, 1 DE, 2 HL, 3 AF
StackPair(c, k) ==
    CASE k = 0 -> c.b * 256 + c.c [] k = 1 -> c.d * 256 + c.e
      [] k = 2 -> c.h * 256 + c.l [] k = 3 -> c.a * 256 + c.f

\* address is in work RAM or HRAM
InStackRam(address) ==
    (address >= 49152 /\ address < 57344) \/ (address >= 65408 /\ address < 65535)

\* C13: PUSH rr decrements SP by exactly 2 modulo 2^16; a POP rr' executed
\* next after a PUSH rr whose two bytes lie in work RAM or HRAM leaves SP at
\* its value before the PUSH and rr' equal to the value pushed (for POP AF,
\* with the low nibble cleared).
C13_PushPop ==
    [][ /\ NextOpcode \in PushOps => cpu'.sp = (cpu.sp - 2) % 65536
        /\ (/\ last.op = "CPU.step" /\ last.arg \in PushOps
            /\ NextOpcode \in PopOps
            /\ InStackRam(cpu.sp) /\ InStackRam((cpu.sp + 1) % 65536))
           => LET pushed == StackPair(cpu, (last.arg - 197) \div 16)
                  popped == StackPair(cpu', (NextOpcode - 193) \div 16)
              IN  /\ cpu'.sp = obs.pre.sp
                  /\ popped = IF NextOpcode = 241 THEN pushed - (pushed % 16) ELSE pushed
      ]_vars

\* C13 witness: LD SP,0xFFFE ; LD BC,0x1234 ; PUSH BC ; POP DE has run:
\* SP = 0xFFFE, DE = 0x1234, and the word is still at 0xFFFC.
C13_Witness ==
    /\ last = [op |-> "CPU.step", arg |-> 209]
    /\ obs.steps = 4
    /\ cpu.sp = 65534
    /\ cpu.d = 18 /\ cpu.e = 52
    /\ cpu.b = 18 /\ cpu.c = 52
    /\ read_word(Sys, 65532) = 4660

----------------------------------------------------------------------------
(* SpecBcd: CPU.step over the programs LD A,x ; op A,y ; DAA ; DAA with x  *)
(* and y packed BCD and op one of ADD, ADC, SUB, SBC (immediate).          *)

BcdBytes == {0, 1, 9, 21, 39, 80, 153}

\* ADD A,n  ADC A,n  SUB n  SBC A,n
BcdOps == {198, 206, 214, 222}

BcdPrograms == { <<62, x, op, y, 39, 39>> : x \in BcdBytes, op \in BcdOps, y \in BcdBytes }

InitBcd == \E p \in BcdPrograms : PowerOn(p)

SpecBcd == InitBcd /\ [][NextCPU]_vars

\* C14 (as stated): a DAA (opcode 0x27) executed after the addition or
\* subtraction of two packed-BCD bytes leaves both nibbles of A in 0..9,
\* and a DAA executed next after a DAA leaves A as it was.
C14_Stated ==
    [][ NextOpcode = 39 =>
            /\ cpu'.a % 16 <= 9
            /\ cpu'.a \div 16 <= 9
            /\ last.arg = 39 => cpu'.a = cpu.a
      ]_vars

\* C15 (as stated): a bus read of 0xFFFF returns IE, and a bus read of
\* 0xFF0F returns IF with the upper three bits set (IF | 0xE0).
C15_Stated ==
    /\ read_byte(Sys, 65535) = ic.interrupt_enable
    /\ read_byte(Sys, 65295) = BitOr(ic.interrupt_flag, 224)

\* the opcodes that set PC: JR, JP, CALL, RET, RETI and RST
JumpOps ==
    {24, 32, 40, 48, 56} \cup {194, 195, 202, 210, 218, 233}
    \cup {196, 204, 205, 212, 220} \cup {192, 200, 201, 208, 216, 217}
    \cup {199, 207, 215, 223, 231, 239, 247, 255}

\* C20: every CPU.step call executes at most one opcode (PC moves past one
\* instruction of 1 to 3 bytes unless the opcode sets PC; halted, PC stays)
\* and increases cpu.cycles by a multiple of 4 between 4 and 24: for every
\* primary opcode, every CB opcode, taken and not-taken branches,
\* unimplemented opcodes and the halted state.
C20_CyclesMultipleOf4 ==
    last.op = "CPU.step" =>
        /\ (cpu.cycles - obs.pre.cycles) \in {4, 8, 12, 16, 20, 24}
        /\ last.arg = -1 => cpu.pc = obs.pre.pc
        /\ (last.arg # -1 /\ last.arg \notin JumpOps)
               => ((cpu.pc - obs.pre.pc) % 65536) \in {1, 2, 3}

\* C20 witness: after INC A has cleared Z, a taken CALL NZ,0xC00F has cost
\* 24 cycles.
C20_Witness ==
    /\ last = [op |-> "CPU.step", arg |-> 196]
    /\ cpu.pc = 49167
    /\ cpu.sp = 65532
    /\ cpu.cycles - obs.pre.cycles = 24

----------------------------------------------------------------------------
(* SpecLoad: startup.  GameBoy.load_rom is called once on a constructed    *)
(* machine with a file that is missing, unreadable, or readable with a     *)
(* given length; main runs the emulation when it returns True and stops    *)
(* when it returns False.  frame.pc is "new" before the call, "failed"     *)
(* after a False, and "idle" (emulate_frame may be called) after a True.   *)

\* file lengths: empty, one byte short of the header, the header, 32 KiB
LoadLengths == {0, 335, 336, 32768}

\* a file: its first len bytes are those of the program placed at 0x0100
LoadFile(len, program) ==
    LET whole == Place(EmptyArr, 256, program)
    IN  [kind |-> "file", len |-> len,
         image |-> [k \in {j \in DOMAIN whole : j < len} |-> whole[k]]]

\* JP 0x0100
LoadFiles ==
    { [kind |-> "missing", len |-> 0, image |-> EmptyArr],
      [kind |-> "unreadable", len |-> 0, image |-> EmptyArr] }
    \cup { LoadFile(n, <<195, 0, 1>>) : n \in LoadLengths }

\* Cartridge.load_rom(filename): open and read raise for a missing or
\* unreadable file, and the except clause returns False
cartridge_load_rom_file(c, f) ==
    IF f.kind # "file" THEN [ok |-> FALSE, c |-> c]
    ELSE [ok |-> TRUE, c |-> cartridge_load_rom(c, f.image, f.len)]

\* GameBoy.load_rom(filename)
gameboy_load_rom(c, m, f) ==
    LET r == cartridge_load_rom_file(c, f)
    IN  IF r.ok THEN [ok |-> TRUE, c |-> r.c, m |-> load_rom(m, get_rom_data(r.c))]
        ELSE [ok |-> FALSE, c |-> r.c, m |-> m]

\* GameBoy.__init__: no ROM yet
InitLoad ==
    /\ cart = Cartridge0
    /\ mem = Memory0
    /\ cpu = CPU0
    /\ ic = Interrupts0
    /\ inp = Input0
    /\ apu = APU0
    /\ ppu = PPU0
    /\ timer = Timer0
    /\ frame = [Frame0 EXCEPT !.pc = "new"]
    /\ obs = Obs0
    /\ last = [op |-> "init", arg |-> "", len |-> 0, value |-> FALSE]

\* main: emulator.load_rom(rom_file), then run() or "Failed to load ROM"
LoadRom(f) ==
    /\ frame.pc = "new"
    /\ LET r == gameboy_load_rom(cart, mem, f)
       IN  /\ cart' = r.c
           /\ mem' = r.m
           /\ frame' = [frame EXCEPT !.pc = IF r.ok THEN "idle" ELSE "failed"]
           /\ last' = [op |-> "GameBoy.load_rom", arg |-> f.kind, len |-> f.len,
                       value |-> r.ok]
    /\ UNCHANGED <<cpu, ic, inp, apu, ppu, timer, obs>>

NextLoad ==
    \/ \E f \in LoadFiles : LoadRom(f)
    \/ FrameBegin
    \/ FrameIteration
    \/ FrameEnd

SpecLoad == InitLoad /\ [][NextLoad]_vars

\* C18 (as stated): load_rom returns False for a missing file, for an
\* unreadable file and for a file shorter than the 0x150-byte header, and
\* emulation is then not started.
C18_Stated ==
    /\ (last.op = "GameBoy.load_rom"
            /\ (last.arg \in {"missing", "unreadable"} \/ last.len < 336))
           => (~last.value /\ frame.pc = "failed")
    /\ frame.pc \in {"idle", "loop", "break", "done"} => cart.rom_len >= 336

----------------------------------------------------------------------------
(* SpecReset: GameBoy.reset, called between frames: before the first       *)
(* emulate_frame or after one has returned.  reset makes a new Interrupts, *)
(* a new CPU and a new PPU and calls Input.reset; Memory and Timer keep    *)
(* the Interrupts object they were constructed with (ic), and the new one  *)
(* is kept in frame.interrupts.  Nothing is run after the reset.           *)

\* Input.reset
input_reset(i) ==
    [i EXCEPT !.buttons = [b \in 0..7 |-> FALSE], !.p1 = 255,
              !.select_buttons = FALSE, !.select_dpad = FALSE]

\* GameBoy.reset
Reset ==
    /\ frame.pc \in {"idle", "done"}
    /\ cpu' = CPU0
    /\ ppu' = PPU0
    /\ inp' = input_reset(inp)
    /\ frame' = [pc |-> "reset", frame_cycles |-> frame.frame_cycles,
                 frames |-> frame.frames, interrupts |-> Interrupts0]
    /\ obs' = [obs EXCEPT !.pre = Snap(Sys)]
    /\ last' = [op |-> "GameBoy.reset", arg |-> 0]
    /\ UNCHANGED <<mem, ic, apu, timer, cart>>

NextReset ==
    \/ FrameBegin
    \/ FrameIteration
    \/ FrameEnd
    \/ Reset

SpecReset == InitFrame /\ [][NextReset]_vars

\* C19 (as stated): after GameBoy.reset the CPU registers, the PPU state
\* (LY read at 0xFF44 is 0, mode 2, accumulator 0), the Timer registers and
\* accumulators and the APU registers equal their power-on values, and the
\* loaded ROM is retained.
C19_Stated ==
    frame.pc = "reset" =>
        /\ cpu = CPU0
        /\ ppu.line = 0 /\ ppu.mode = MODE_OAM /\ ppu.cycles = 0
        /\ read_byte(Sys, 65348) = 0
        /\ timer = Timer0
        /\ \A a \in 65296..65343 : apu_read_register(apu, a) = apu_read_register(APU0, a)
        /\ mem.rom = get_rom_data(cart).data

----------------------------------------------------------------------------
(* SpecApu: the APU as APU.__init__ can leave it: complete; constructed    *)
(* with enabled=False (only self.enabled exists); or after the mixer       *)
(* failed (self.enabled and self.audio_enabled exist, nothing else).  The  *)
(* record apu has exactly the attributes that exist, and reading a missing *)
(* attribute raises AttributeError, which nothing catches: frame.pc        *)
(* becomes "raised" and nothing runs after it.  Before the frame, bus      *)
(* reads and writes of 0xFF10-0xFF3F and the mute key are applied.         *)

MaxApuOps == 1

\* APU.__init__ with enabled=False
APU_disabled == [enabled |-> FALSE]

\* APU.__init__ when pygame.mixer.init raised
APU_nomixer == [enabled |-> TRUE, audio_enabled |-> FALSE]

ApuAddresses == {65296, 65316, 65317, 65318, 65328}

ApuValues == {0, 128}

\* APU.read_register: NR52 reads self.sound_enabled
apu_read_raises(a, address) == address = \hFF26 /\ "sound_enabled" \notin DOMAIN a

\* APU.write_register: past the enabled test, every register but NR50 and
\* NR51 reads channel state, wave RAM or self.sound_enabled
apu_write_raises(a, address) ==
    /\ a.enabled
    /\ "sound_enabled" \notin DOMAIN a
    /\ address \in (65296..65300) \cup (65302..65310) \cup (65312..65315)
                   \cup {65318} \cup (65328..65343)

\* JP 0x0100
InitApu ==
    /\ cart = cartridge_load_rom(Cartridge0, Place(EmptyArr, 256, <<195, 0, 1>>), 32768)
    /\ mem = load_rom(Memory0, get_rom_data(cart))
    /\ cpu = CPU0
    /\ ic = Interrupts0
    /\ inp = Input0
    /\ apu \in {APU0, APU_disabled, APU_nomixer}
    /\ ppu = PPU0
    /\ timer = Timer0
    /\ frame = Frame0
    /\ obs = Obs0
    /\ last = [op |-> "init", arg |-> 0]

\* Memory.read_byte(address) of an APU register
ApuRead(address) ==
    /\ frame.pc = "idle"
    /\ obs.reqs < MaxApuOps
    /\ frame' = [frame EXCEPT !.pc = IF apu_read_raises(apu, address) THEN "raised" ELSE @]
    /\ obs' = [obs EXCEPT !.reqs = @ + 1]
    /\ last' = [op |-> "Memory.read_byte", arg |-> address]
    /\ UNCHANGED <<cpu, mem, ic, inp, apu, ppu, timer, cart>>

\* Memory.write_byte(address, value) of an APU register
ApuWrite(address, value) ==
    /\ frame.pc = "idle"
    /\ obs.reqs < MaxApuOps
    /\ IF apu_write_raises(apu, address)
       THEN /\ frame' = [frame EXCEPT !.pc = "raised"]
            /\ UNCHANGED <<cpu, mem, ic, inp, apu>>
       ELSE /\ SetSys(write_byte(Sys, address, value))
            /\ UNCHANGED frame
    /\ obs' = [obs EXCEPT !.reqs = @ + 1]
    /\ last' = [op |-> "Memory.write_byte", arg |-> address]
    /\ UNCHANGED <<ppu, timer, cart>>

\* GameBoy.handle_events: the M key toggles apu.enabled
ApuMute ==
    /\ frame.pc = "idle"
    /\ obs.reqs < MaxApuOps
    /\ apu' = [apu EXCEPT !.enabled = ~@]
    /\ obs' = [obs EXCEPT !.reqs = @ + 1]
    /\ last' = [op |-> "K_m", arg |-> 0]
    /\ UNCHANGED <<cpu, mem, ic, inp, ppu, timer, cart, frame>>

NextApu ==
    \/ \E a \in ApuAddresses : ApuRead(a)
    \/ \E a \in ApuAddresses, v \in ApuValues : ApuWrite(a, v)
    \/ ApuMute
    \/ FrameBegin
    \/ FrameIteration
    \/ FrameEnd

SpecApu == InitApu /\ [][NextApu]_vars

\* C17 (as stated): once a ROM has loaded, no bus read or write of the APU
\* registers, no mute toggle and no frame step raises an unhandled error,
\* whether the APU is complete, was constructed disabled, or lost its mixer.
C17_Stated == frame.pc # "raised"


----------------------------------------------------------------------------
(* The order of a pass of emulate_frame's loop: the poll comes after       *)
(* ppu.step and timer.step.  ic.nreq counts the calls of request_interrupt *)
(* per bit, so a request made during a pass shows as an increase.          *)

VectorOf(interrupt_bit) == VECTOR_VBLANK + 8 * interrupt_bit

----------------------------------------------------------------------------
(* The dispatch seen from the stack, under SpecIC: obs.pre holds the       *)
(* registers before the last call.                                         *)

\* the poll that has just returned dispatched an interrupt
Dispatched == Polled /\ obs.pre.ime /\ PrePending # 0

\* the last call was a CPU.step of a halted CPU with nothing pending
HaltedStep == last.op = "CPU.step" /\ obs.pre.halted /\ PrePending = 0

\* C22 (as stated): a dispatch decrements SP by 2, leaves at the new SP the
\* PC from before the dispatch (for a CPU halted by a HALT at p, p + 1),
\* clears halted and adds exactly 20 to cpu.cycles; a CPU.step while halted
\* with nothing pending adds exactly 4 cycles and leaves PC unchanged.
C22_Stated ==
    /\ Dispatched =>
           /\ cpu.sp = (obs.pre.sp - 2) % 65536
           /\ read_word(Sys, cpu.sp) = obs.pre.pc
           /\ obs.pre.halted => read_byte(Sys, (obs.pre.pc - 1) % 65536) = 118
           /\ ~cpu.halted
           /\ cpu.cycles = obs.pre.cycles + 20
    /\ HaltedStep =>
           /\ cpu.cycles = obs.pre.cycles + 4
           /\ cpu.pc = obs.pre.pc

\* C22 (amended): the same, the word at the new SP being the PC from before
\* the dispatch when the two bytes below the old SP lie in work RAM or HRAM.
C22_ServicePushesPC ==
    /\ Dispatched =>
           /\ cpu.sp = (obs.pre.sp - 2) % 65536
           /\ (InStackRam(cpu.sp) /\ InStackRam((cpu.sp + 1) % 65536))
                  => read_word(Sys, cpu.sp) = obs.pre.pc
           /\ obs.pre.halted => read_byte(Sys, (obs.pre.pc - 1) % 65536) = 118
           /\ ~cpu.halted
           /\ cpu.cycles = obs.pre.cycles + 20
    /\ HaltedStep =>
           /\ cpu.cycles = obs.pre.cycles + 4
           /\ cpu.pc = obs.pre.pc

\* C22 witness: EI ; HALT at 0x0105 has halted the CPU with IME true, a
\* device requested, and the poll pushed 0x0106 at 0xFFFC.
C22_Witness ==
    /\ Dispatched
    /\ obs.pre.halted /\ obs.pre.pc = 262 /\ obs.pre.sp = 65534
    /\ cpu.sp = 65532
    /\ read_word(Sys, 65532) = 262
    /\ ~cpu.halted
    /\ cpu.cycles = obs.pre.cycles + 20


----------------------------------------------------------------------------
(* SpecScan: PPU.step fed cycle counts from power-on for a frame and a     *)
(* line more, with the calls of render_scanline observed: obs.renders is   *)
(* the number of calls since LY last changed and obs.rline the LY of the   *)
(* last call (-1: none yet).                                               *)

MaxScanCycles == 70680

ScanDeltas == {4, 12, 24}

\* PPU.step: the call of render_scanline is made by this step
ppu_renders(P, cpu_cycles) == P.mode = MODE_DRAW /\ P.cycles + cpu_cycles >= 172

InitScan ==
    /\ cart = cartridge_load_rom(Cartridge0, EmptyArr, \h8000)
    /\ mem = load_rom(Memory0, get_rom_data(cart))
    /\ cpu = CPU0
    /\ ic = Interrupts0
    /\ inp = Input0
    /\ apu = APU0
    /\ ppu = PPU0
    /\ timer = Timer0
    /\ frame = Frame0
    /\ obs = [renders |-> 0, rline |-> -1] @@ Obs0
    /\ last = [op |-> "init", arg |-> 0]

\* one call of PPU.step
ScanStep(cpu_cycles) ==
    LET r == ppu_step(ppu, Sys, cpu_cycles)
        rendered == ppu_renders(ppu, cpu_cycles)
    IN  /\ obs.total < MaxScanCycles
        /\ ppu' = r.P
        /\ SetSys(r.S)
        /\ obs' = [obs EXCEPT !.total = @ + cpu_cycles, !.pre = Snap(Sys),
                              !.renders = IF r.P.line # ppu.line THEN 0
                                          ELSE IF rendered THEN @ + 1 ELSE @,
                              !.rline = IF rendered THEN ppu.line ELSE @]
        /\ last' = [op |-> "PPU.step", arg |-> cpu_cycles]
        /\ UNCHANGED <<timer, cart, frame>>

NextScan == \E d \in ScanDeltas : ScanStep(d)

SpecScan == InitScan /\ [][NextScan]_vars

\* mode and scanline agree, and the line has been rendered as its mode says
ModeLineConsistent ==
    /\ ppu.line \in 0..153
    /\ (ppu.mode = MODE_VBLANK) = (ppu.line \in 144..153)
    /\ ppu.mode \in {MODE_OAM, MODE_DRAW, MODE_HBLANK} => ppu.line \in 0..143
    /\ obs.renders = IF ppu.mode = MODE_HBLANK THEN 1 ELSE 0
    /\ obs.rline < 144
    /\ ppu.mode = MODE_HBLANK => obs.rline = ppu.line

\* the mode changes of one PPU.step
ModeOrder ==
    /\ ppu.mode = MODE_OAM => /\ ppu'.mode \in {MODE_OAM, MODE_DRAW}
                              /\ ppu'.line = ppu.line
    /\ ppu.mode = MODE_DRAW => /\ ppu'.mode \in {MODE_DRAW, MODE_HBLANK}
                               /\ ppu'.line = ppu.line
    /\ ppu.mode = MODE_HBLANK =>
           \/ ppu'.mode = MODE_HBLANK /\ ppu'.line = ppu.line
           \/ ppu'.mode = MODE_OAM /\ ppu'.line = ppu.line + 1 /\ ppu.line < 143
           \/ ppu'.mode = MODE_VBLANK /\ ppu'.line = 144 /\ ppu.line = 143
    /\ ppu.mode = MODE_VBLANK =>
           \/ ppu'.mode = MODE_VBLANK /\ ppu'.line \in {ppu.line, ppu.line + 1}
           \/ ppu'.mode = MODE_OAM /\ ppu'.line = 0 /\ ppu.line = 153

\* C23: at every PPU.step boundary LY is in 0..153, the mode is 1 exactly
\* when LY is in 144..153 and modes 2, 3, 0 occur only with LY in 0..143;
\* the modes of a visible line follow in the order 2, 3, 0; after the
\* H-blank of line 143 the PPU is in mode 1 through LY 144..153 and then at
\* LY 0 in mode 2; render_scanline is called once per visible line, in the
\* step that goes from mode 3 to mode 0, and never with LY >= 144.
C23_ModeLine ==
    [][/\ ModeLineConsistent
       /\ ModeLineConsistent'
       /\ ModeOrder
       /\ ppu_renders(ppu, last'.arg) = (ppu.mode = MODE_DRAW /\ ppu'.mode = MODE_HBLANK)
       /\ ppu'.line # ppu.line /\ ppu.line < 144 => obs.renders = 1]_vars

\* C23 witness: V-blank has ended: the step from LY 153 has put the PPU at
\* LY 0 in mode 2, the last line rendered being 143.
C23_Witness ==
    /\ last.op = "PPU.step"
    /\ obs.total >= FrameLength
    /\ ppu.line = 0 /\ ppu.mode = MODE_OAM
    /\ obs.rline = 143
    /\ obs.renders = 0


----------------------------------------------------------------------------
(* SpecTimerBus: emulate_frame over programs that start the timer through  *)
(* the bus and wait.                                                       *)

TimerBusPrograms ==
    { <<62, 5, 224, 7, 24, 254>>,              \* LD A,0x05 ; LDH (0x07),A ; JR -2
      <<62, 5, 224, 7, 240, 5, 24, 252>>,      \* LD A,0x05 ; LDH (0x07),A ; LDH A,(0x05) ; JR -4
      <<62, 254, 224, 6, 62, 5, 224, 7, 224, 4, 24, 254>> }
                        \* LD A,0xFE ; LDH (0x06),A ; LD A,0x05 ; LDH (0x07),A ; LDH (0x04),A ; JR -2

InitTimerBus == \E p \in TimerBusPrograms : PowerOn(p)

SpecTimerBus == InitTimerBus /\ [][NextFrame]_vars

\* C24 (as stated): after every pass of emulate_frame's loop a bus read of
\* 0xFF04, 0xFF05, 0xFF06, 0xFF07 returns the Timer's DIV, TIMA, TMA, TAC,
\* and once the program has written a value with bit 2 set to 0xFF07 the
\* Timer counts TIMA.
C24_Stated ==
    last.op = "iteration" =>
        /\ \A address \in 65284..65287 :
               read_byte(Sys, address) = timer_read_register(timer, address)
        /\ Bit(Get(mem.io, 7), 2) = 1 => timer.timer_enabled


----------------------------------------------------------------------------
(* TIMA overflow, under SpecTimer.  A step of a running timer makes        *)
(* TickCount ticks; Ticked is TIMA after n ticks, each tick at 0xFF        *)
(* reloading TMA, with the number of overflows met on the way.             *)

TickCount(T, cycles) ==
    (T.tima_counter + cycles) \div tima_frequencies(BitAnd(T.tac, 3))

RECURSIVE Ticked(_, _, _)
Ticked(tima, tma, n) ==
    IF n = 0 THEN [tima |-> tima, overflows |-> 0]
    ELSE LET r == Ticked(tima, tma, n - 1)
         IN  IF r.tima = 255
             THEN [tima |-> tma, overflows |-> r.overflows + 1]
             ELSE [tima |-> r.tima + 1, overflows |-> r.overflows]

\* C25: a Timer.step with TAC bit 2 set leaves TIMA as its ticks make it,
\* every tick at 0xFF reloading the current TMA, and has requested the
\* Timer interrupt once per overflow (IF bit 2 set if there was one, IF
\* untouched otherwise); a Timer.step with TAC bit 2 clear changes neither
\* TIMA nor IF.
C25_ReloadAndRequest ==
    [][last'.op = "Timer.step" =>
          IF Bit(timer.tac, 2) = 1
          THEN LET r == Ticked(timer.tima, timer.tma, TickCount(timer, last'.arg))
               IN  /\ timer'.tima = r.tima
                   /\ ic'.nreq[INT_TIMER] = ic.nreq[INT_TIMER] + r.overflows
                   /\ r.overflows > 0 => Bit(ic'.interrupt_flag, INT_TIMER) = 1
                   /\ r.overflows = 0 => ic' = ic
                   /\ (timer'.tima = 0 /\ r.overflows > 0) => timer.tma = 0
          ELSE timer'.tima = timer.tima /\ ic' = ic]_vars

\* C25 witness: TAC=0x05, TMA=0xFE, TIMA=0xFD, then two steps of 64 cycles:
\* the second step overflowed twice, three requests in all, and TIMA is
\* 0xFF, one tick after the last reload.
C25_Witness ==
    /\ AfterSteps(2, 64)
    /\ ic.nreq[INT_TIMER] = 3
    /\ timer.tima = 255
    /\ TimerIF = 1


----------------------------------------------------------------------------
(* SpecDiv: Timer.step with cycle counts of any size and writes to 0xFF04, *)
(* on a timer fresh from construction.  obs.total is the number of cycles  *)
(* stepped since power-on or since the last write to 0xFF04, obs.reqs the  *)
(* number of such writes.                                                  *)

MaxDivOps == 6

DivDeltas == {4, 100, 256, 1000, 20000}

DivValues == {0, 171}

\* Timer.step(cycles)
DivStep(cycles) ==
    LET r == timer_step(timer, Sys, cycles)
    IN  /\ obs.steps < MaxDivOps
        /\ timer' = r.P
        /\ SetSys(r.S)
        /\ obs' = [obs EXCEPT !.steps = @ + 1, !.total = @ + cycles, !.pre = Snap(Sys)]
        /\ last' = [op |-> "Timer.step", arg |-> cycles]
        /\ UNCHANGED <<ppu, cart, frame>>

\* Timer.write_register(0xFF04, value)
DivWrite(value) ==
    /\ obs.steps < MaxDivOps
    /\ timer' = timer_write_register(timer, 65284, value)
    /\ obs' = [obs EXCEPT !.steps = @ + 1, !.total = 0, !.reqs = @ + 1, !.pre = Snap(Sys)]
    /\ last' = [op |-> "Timer.write_register", arg |-> value]
    /\ UNCHANGED <<cpu, mem, ic, inp, apu, ppu, cart, frame>>

NextDiv ==
    \/ \E c \in DivDeltas : DivStep(c)
    \/ \E v \in DivValues : DivWrite(v)

SpecDiv == InitTimer /\ [][NextDiv]_vars

\* C26: read_register(0xFF04) is floor(C / 256) mod 256, C being the cycles
\* stepped since power-on or since the last write to 0xFF04, however the
\* cycles were split into steps; the phase within the 256 cycles is C mod
\* 256; and directly after a write of any value to 0xFF04 DIV reads 0.
C26_DivUpperByte ==
    /\ timer_read_register(timer, 65284) = (obs.total \div 256) % 256
    /\ timer.div_counter = obs.total % 256
    /\ last.op = "Timer.write_register" => timer_read_register(timer, 65284) = 0

\* C26 witness: 0xFF04 was written once and four steps of 20000 cycles
\* followed: the counter has passed 65536 and DIV reads 312 mod 256.
C26_Witness ==
    /\ obs.reqs = 1
    /\ last = [op |-> "Timer.step", arg |-> 20000]
    /\ obs.total = 80000
    /\ timer_read_register(timer, 65284) = 56
    /\ timer.div_counter = 128


----------------------------------------------------------------------------
(* SpecAlu: the 8-bit ALU helpers add_a, adc_a, sub_a, sbc_a and cp_a      *)
(* applied once to every accumulator and every carry-in, with operands     *)
(* whose nibbles are taken at their ends and their middle.                 *)

AluBytes == 0..255

\* operands: both nibbles at and next to their ends and their middle
AluNibbles == {0, 1, 2, 7, 8, 9, 14, 15}

AluOperands == { 16 * h + l : h \in AluNibbles, l \in AluNibbles }

\* F before the call: no flag set (carry-in 0) or all four set (carry-in 1)
AluFlags == {0, 240}

\* the helper's index in the 0x80-0xBF block: ADD ADC SUB SBC CP
AluOps == {0, 1, 2, 3, 7}

InitAlu ==
    /\ cart = cartridge_load_rom(Cartridge0, EmptyArr, \h8000)
    /\ mem = load_rom(Memory0, get_rom_data(cart))
    /\ \E a \in AluBytes, f \in AluFlags : cpu = [CPU0 EXCEPT !.a = a, !.f = f]
    /\ ic = Interrupts0
    /\ inp = Input0
    /\ apu = APU0
    /\ ppu = PPU0
    /\ timer = Timer0
    /\ frame = Frame0
    /\ obs = Obs0
    /\ last = [op |-> "init", arg |-> 0, value |-> 0]

\* one call of a helper
AluApply(i, value) ==
    /\ last.op = "init"
    /\ SetSys(alu(Sys, i, value))
    /\ last' = [op |-> "alu", arg |-> i, value |-> value]
    /\ UNCHANGED <<ppu, timer, cart, frame, obs>>

NextAlu == \E i \in AluOps, value \in AluOperands : AluApply(i, value)

SpecAlu == InitAlu /\ [][NextAlu]_vars

\* C27: for every A, v and carry-in, ADD and ADC give Z = (result mod 256
\* = 0), N = 0, H = ((A & 0x0F) + (v & 0x0F) + cin > 0x0F), C = (A + v + cin
\* > 0xFF); SUB, SBC and CP give Z = (result mod 256 = 0), N = 1, H =
\* ((A & 0x0F) < (v & 0x0F) + cin), C = (A < v + cin); A receives the result
\* modulo 256, except for CP, which leaves A unchanged.  cin is the carry
\* flag for ADC and SBC and 0 for the others.
C27_AluFlags ==
    [][last'.op = "alu" =>
          LET i == last'.arg
              v == last'.value
              cin == IF i \in {1, 3} THEN Bit(cpu.f, 4) ELSE 0
              adds == i \in {0, 1}
              result == IF adds THEN cpu.a + v + cin ELSE cpu.a - v - cin
          IN  /\ (Bit(cpu'.f, 7) = 1) = (result % 256 = 0)
              /\ (Bit(cpu'.f, 6) = 1) = ~adds
              /\ (Bit(cpu'.f, 5) = 1) =
                     IF adds THEN (cpu.a % 16) + (v % 16) + cin > 15
                     ELSE (cpu.a % 16) < (v % 16) + cin
              /\ (Bit(cpu'.f, 4) = 1) =
                     IF adds THEN cpu.a + v + cin > 255 ELSE cpu.a < v + cin
              /\ cpu'.a = IF i = 7 THEN cpu.a ELSE result % 256]_vars

\* C27 witness: SBC A,0x0F has given A = 0 with Z, N and H set and C clear,
\* which only A = 0x10 with the carry set gives: the carry-in borrowed from
\* bit 4 and the result did not go below zero.
C27_Witness ==
    /\ last = [op |-> "alu", arg |-> 3, value |-> 15]
    /\ cpu.a = 0
    /\ cpu.f = 224


----------------------------------------------------------------------------
(* The restart opcodes, under SpecCPU.                                     *)

\* RST 00H .. RST 38H: 0xC7 + n for n in {0x00, 0x08, ..., 0x38}
RstOps == { 199 + 8 * k : k \in 0..7 }

\* C28 (as stated): CPU.step of the opcode 0xC7 + n pushes the address of
\* the next instruction (SP decreases by 2), sets PC = n and adds 16
\* cycles.
C28_Stated ==
    (last.op = "CPU.step" /\ last.arg \in RstOps) =>
        /\ cpu.sp = (obs.pre.sp - 2) % 65536
        /\ read_word(Sys, cpu.sp) = (obs.pre.pc + 1) % 65536
        /\ cpu.pc = last.arg - 199
        /\ cpu.cycles = obs.pre.cycles + 16


----------------------------------------------------------------------------
(* SpecDma: Memory.write_byte called from power-on on source bytes in VRAM *)
(* and work RAM, on OAM and on 0xFF46, with values that are also page      *)
(* numbers of those sources.                                               *)

MaxDmaOps == 3

\* 0x8000  0xC000  0xC09F  0xD001  0xFE00  0xFF46
DmaAddresses == {32768, 49152, 49311, 53249, 65024, 65350}

\* 0x00, and the pages 0x80, 0xC0, 0xD0 of the sources
DmaValues == {0, 128, 192, 208}

InitDma == PowerOn(<<>>)

\* Memory.write_byte(address, value)
DmaWrite(address, value) ==
    /\ obs.steps < MaxDmaOps
    /\ SetSys(write_byte(Sys, address, value))
    /\ obs' = [obs EXCEPT !.steps = @ + 1, !.pre = Snap(Sys)]
    /\ last' = [op |-> "write_byte", arg |-> address, value |-> value]
    /\ UNCHANGED <<ppu, timer, cart, frame>>

NextDma == \E address \in DmaAddresses, value \in DmaValues : DmaWrite(address, value)

SpecDma == InitDma /\ [][NextDma]_vars

\* C29 (as stated): after a bus write of X to 0xFF46 a read of 0xFE00 + k
\* returns the byte at (X << 8) + k, for every k in 0..0x9F.
C29_Stated ==
    (last.op = "write_byte" /\ last.arg = 65350) =>
        \A k \in 0..159 :
            read_byte(Sys, 65024 + k) = read_byte(Sys, last.value * 256 + k)


----------------------------------------------------------------------------
(* SpecJoypad: keys go down and up (Input.handle_key_down / handle_key_up  *)
(* for a mapped key) and the program writes 0xFF00 through the bus.        *)
(* last.value is the value last written to 0xFF00 (-1: none yet).          *)

\* Input.handle_key_down and handle_key_up for a key mapped to button
handle_key(S, button, pressed) ==
    update_p1_register([S EXCEPT !.inp.buttons[button] = pressed])

\* the values a program writes to select no group, one group or both
P1Values == {0, 16, 32, 48}

InitJoypad ==
    /\ cart = cartridge_load_rom(Cartridge0, EmptyArr, \h8000)
    /\ mem = load_rom(Memory0, get_rom_data(cart))
    /\ cpu = CPU0
    /\ ic = Interrupts0
    /\ inp = Input0
    /\ apu = APU0
    /\ ppu = PPU0
    /\ timer = Timer0
    /\ frame = Frame0
    /\ obs = Obs0
    /\ last = [op |-> "init", arg |-> 0, value |-> -1]

\* a key mapped to button goes down
KeyDown(button) ==
    /\ ~inp.buttons[button]
    /\ SetSys(handle_key(Sys, button, TRUE))
    /\ last' = [op |-> "handle_key_down", arg |-> button, value |-> last.value]
    /\ UNCHANGED <<ppu, timer, cart, frame, obs>>

\* a key mapped to button goes up
KeyUp(button) ==
    /\ inp.buttons[button]
    /\ SetSys(handle_key(Sys, button, FALSE))
    /\ last' = [op |-> "handle_key_up", arg |-> button, value |-> last.value]
    /\ UNCHANGED <<ppu, timer, cart, frame, obs>>

\* Memory.write_byte(0xFF00, value)
P1Write(value) ==
    /\ SetSys(write_byte(Sys, 65280, value))
    /\ last' = [op |-> "write_byte", arg |-> 65280, value |-> value]
    /\ UNCHANGED <<ppu, timer, cart, frame, obs>>

NextJoypad ==
    \/ \E button \in 0..7 : KeyDown(button)
    \/ \E button \in 0..7 : KeyUp(button)
    \/ \E value \in P1Values : P1Write(value)

SpecJoypad == InitJoypad /\ [][NextJoypad]_vars

\* the bit of 0xFF00 a button is read on, and the select bit of its group
ButtonBit(button) == button % 4
GroupSelectBit(button) == IF button < BUTTON_RIGHT THEN 5 ELSE 4

\* C30 (as stated): once v has been written to 0xFF00, bit k (0..3) of the
\* value read at 0xFF00 is 0 exactly when some pressed button mapped to bit
\* k belongs to a group whose select bit in v is 0; so with bits 5 and 4 of
\* v both set the low nibble reads 0xF whatever is pressed.
C30_Stated ==
    last.value # -1 =>
        \A k \in 0..3 :
            (Bit(read_byte(Sys, 65280), k) = 0) =
                (\E button \in 0..7 : /\ inp.buttons[button]
                                      /\ ButtonBit(button) = k
                                      /\ Bit(last.value, GroupSelectBit(button)) = 0)


----------------------------------------------------------------------------
(* The joypad interrupt, under SpecJoypad.                                 *)

\* C31 (as stated): whenever a key-down event makes one of the bits 3..0
\* read at 0xFF00 go from 1 to 0, the Joypad interrupt is requested: IF bit
\* 4 is set after the event.
C31_Stated ==
    [][(/\ last'.op = "handle_key_down"
        /\ \E k \in 0..3 : /\ Bit(read_byte(Sys, 65280), k) = 1
                           /\ Bit(read_byte(Sys', 65280), k) = 0)
           => Bit(ic'.interrupt_flag, INT_JOYPAD) = 1]_vars


----------------------------------------------------------------------------
(* SpecLyc: emulate_frame over programs that enable the LYC source in STAT *)
(* (0xFF41 bit 6), set LYC (0xFF45) and wait.                              *)

LycLines == {1, 2, 144}

\* LD A,0x40 ; LDH (0x41),A ; LD A,lyc ; LDH (0x45),A ; JR -2
LycPrograms == { <<62, 64, 224, 65, 62, lyc, 224, 69, 24, 254>> : lyc \in LycLines }

InitLyc == \E p \in LycPrograms : PowerOn(p)

SpecLyc == InitLyc /\ [][NextFrame]_vars

\* C32 (as stated): whenever the PPU changes LY to the value of LYC
\* (0xFF45), bit 2 of STAT (0xFF41) is set and, if bit 6 of STAT is set,
\* the LCD STAT interrupt is requested (IF bit 1).
C32_Stated ==
    [][(ppu'.line # ppu.line /\ ppu'.line = read_byte(Sys', 65349))
           => /\ Bit(read_byte(Sys', 65345), 2) = 1
              /\ Bit(read_byte(Sys', 65345), 6) = 1
                     => (ic'.nreq[INT_LCD] > ic.nreq[INT_LCD]
                         /\ Bit(ic'.interrupt_flag, INT_LCD) = 1)]_vars


----------------------------------------------------------------------------
(* SpecTile: the background tile fetch of PPU.render_background_line for   *)
(* the first pixel of line 0 with no scroll.  The program writes a tile ID *)
(* into the tile map at 0x9800 and LCDC through the bus; a render latches  *)
(* LCDC and fetches.  last.arg is the tile ID read from the map and        *)
(* last.value the tile data address computed for it.                       *)

\* render_background_line: tile_map_base + tile_row * 32 + tile_col
tile_map_address(lcdc, line, scy, x, scx) ==
    (IF BitAnd(lcdc, 8) # 0 THEN 39936 ELSE 38912)
        + ((((line + scy) % 256) \div 8) % 32) * 32
        + ((((x + scx) % 256) \div 8) % 32)

\* render_background_line: tile_addr
tile_data_address(lcdc, tile_index) ==
    IF BitAnd(lcdc, 16) = 0
    THEN 34816 + (IF tile_index > 127 THEN tile_index - 256 ELSE tile_index) * 16
    ELSE 32768 + tile_index * 16

\* LCD and background on, tile map 0x9800, tile data selected by bit 4
LcdcValues == {129, 145}

TileIds == 0..255

InitTile ==
    /\ cart = cartridge_load_rom(Cartridge0, EmptyArr, \h8000)
    /\ mem = load_rom(Memory0, get_rom_data(cart))
    /\ cpu = CPU0
    /\ ic = Interrupts0
    /\ inp = Input0
    /\ apu = APU0
    /\ ppu = PPU0
    /\ timer = Timer0
    /\ frame = Frame0
    /\ obs = Obs0
    /\ last = [op |-> "init", arg |-> 0, value |-> 0]

\* Memory.write_byte(0x9800, tile_index)
TileWrite(tile_index) ==
    /\ SetSys(write_byte(Sys, 38912, tile_index))
    /\ last' = [op |-> "write_byte", arg |-> 38912, value |-> tile_index]
    /\ UNCHANGED <<ppu, timer, cart, frame, obs>>

\* Memory.write_byte(0xFF40, value)
LcdcWrite(value) ==
    /\ SetSys(write_byte(Sys, 65344, value))
    /\ last' = [op |-> "write_byte", arg |-> 65344, value |-> value]
    /\ UNCHANGED <<ppu, timer, cart, frame, obs>>

\* PPU.render_scanline with the LCD and the background on: the fetch of the
\* first pixel's tile
TileRender ==
    LET P == render_scanline(ppu, Sys)
        tile_index == read_byte(Sys, tile_map_address(P.lcdc, P.line, P.scy, 0, P.scx))
    IN  /\ BitAnd(P.lcdc, 128) # 0
        /\ BitAnd(P.lcdc, 1) # 0
        /\ ppu' = P
        /\ last' = [op |-> "render_scanline", arg |-> tile_index,
                    value |-> tile_data_address(P.lcdc, tile_index)]
        /\ UNCHANGED <<cpu, mem, ic, inp, apu, timer, cart, frame, obs>>

NextTile ==
    \/ \E tile_index \in TileIds : TileWrite(tile_index)
    \/ \E value \in LcdcValues : LcdcWrite(value)
    \/ TileRender

SpecTile == InitTile /\ [][NextTile]_vars

\* the value of a byte read as a signed 8-bit number
Signed8(t) == IF t > 127 THEN t - 256 ELSE t

\* C33 (as stated): with LCDC bit 4 clear the tile data address of tile ID
\* t is 0x9000 + 16 * signed8(t); with bit 4 set it is 0x8000 + 16 * t; and
\* the address is within VRAM for every t.
C33_Stated ==
    last.op = "render_scanline" =>
        /\ last.value = IF BitAnd(ppu.lcdc, 16) = 0
                        THEN 36864 + 16 * Signed8(last.arg)
                        ELSE 32768 + 16 * last.arg
        /\ last.value \in 32768..40959


----------------------------------------------------------------------------
(* The frame sequencer under emulate_frame's single APU.step(70224).       *)

\* C34 (as stated): the frame sequencer advances one step per 8192 cycles:
\* the APU.step(70224) that ends a frame clocks it once for every 8192
\* cycles accumulated in frame_sequencer_counter, so the step advances by
\* floor((frame_sequencer_counter + 70224) / 8192) modulo 8 and less than
\* 8192 cycles are left in the counter.
C34_Stated ==
    [][(last'.op = "return" /\ frame'.pc = "done"
            /\ apu.enabled /\ apu.audio_enabled /\ apu.sound_enabled)
          => /\ apu'.frame_sequencer_step
                    = (apu.frame_sequencer_step
                         + ((apu.frame_sequencer_counter + target_cycles) \div 8192)) % 8
             /\ apu'.frame_sequencer_counter
                    = (apu.frame_sequencer_counter + target_cycles) % 8192]_vars


----------------------------------------------------------------------------
(* Termination of emulate_frame.  The loop is sequential code: once        *)
(* emulate_frame is called, the next pass of the loop and the return are   *)
(* taken whenever they are possible.                                       *)

\* the while condition: a pass of the loop is possible (CPU.step is total
\* and every pass changes frame_cycles, so this is ENABLED <<FrameIteration>>_vars)
IterationEnabled == frame.pc = "loop" /\ frame.frame_cycles < target_cycles

\* weak fairness of FrameIteration, its enabling condition written out
IterationFair == []<>(~IterationEnabled) \/ []<><<FrameIteration>>_vars

SpecFrameLive ==
    InitFrame /\ [][NextFrame]_vars /\ IterationFair /\ WF_vars(FrameEnd)

\* the amounts one pass of the loop may add to frame_cycles
IterationCycles == {4, 8, 12, 16, 20, 24}

\* C35: every emulate_frame terminates: each pass of the loop adds a
\* multiple of 4 between 4 and 24 to frame_cycles, the safety break is
\* never taken, the call returns, and it returns with frame_cycles in
\* 70224..70244, also when the CPU is halted for the whole frame.
C35_FrameTerminates ==
    /\ [][last'.op = "iteration"
            => (frame'.frame_cycles - frame.frame_cycles) \in IterationCycles]_vars
    /\ [](frame.pc # "break")
    /\ [](frame.pc = "done"
            => frame.frame_cycles \in target_cycles..(target_cycles + 20))
    /\ (frame.pc = "loop" ~> frame.pc = "done")

\* a frame that returned with the CPU halted since its first instruction
C35_Witness ==
    /\ frame.pc = "done"
    /\ cpu.halted
    /\ cpu.pc = 257
    /\ frame.frame_cycles \in target_cycles..(target_cycles + 20)


----------------------------------------------------------------------------
(* The PPU's cycle accumulator between calls of PPU.step.                  *)

\* the cycles a mode lasts: the threshold PPU.step tests in that mode
ModeDuration(mode) ==
    IF mode = MODE_OAM THEN 80
    ELSE IF mode = MODE_DRAW THEN 172
    ELSE IF mode = MODE_HBLANK THEN 204
    ELSE 456

\* C36: with deltas of at most 24 cycles, after every PPU.step the
\* accumulator is at least 0 and less than the duration of the current
\* mode, so no second transition is due, and a step that reaches the
\* threshold of its mode makes the transition in that same step, keeping
\* the excess.
C36_AccumulatorBelowDuration ==
    /\ [](ppu.cycles >= 0 /\ ppu.cycles < ModeDuration(ppu.mode))
    /\ [][last'.op = "PPU.step" =>
            IF ppu.cycles + last'.arg >= ModeDuration(ppu.mode)
            THEN /\ ppu'.cycles = ppu.cycles + last'.arg - ModeDuration(ppu.mode)
                 /\ (ppu'.mode # ppu.mode \/ ppu'.line # ppu.line)
            ELSE /\ ppu'.cycles = ppu.cycles + last'.arg
                 /\ ppu'.mode = ppu.mode
                 /\ ppu'.line = ppu.line]_vars

\* a step of 24 cycles taken 4 cycles before the end of the OAM scan
C36_Witness ==
    /\ last.op = "PPU.step"
    /\ last.arg = 24
    /\ ppu.mode = MODE_DRAW
    /\ ppu.cycles = 20


----------------------------------------------------------------------------
(* The widths of the CPU registers.                                        *)

----------------------------------------------------------------------------
(* One call of handle_interrupts, compared with the state it was called in. *)

\* IF & IE as handle_interrupts is called
Pending == BitAnd(ic.interrupt_flag, ic.interrupt_enable)

\* the two addresses the push of a dispatch writes
PushAddresses == { (cpu.sp + 65535) % 65536, (cpu.sp + 65534) % 65536 }

\* the poll changes nothing: registers, memory, IF, IE, IME, halted, cycles
PollIdle == UNCHANGED <<cpu, mem, ic, inp, apu>>

\* the poll dispatches one interrupt: one push, one vector, 20 cycles, and
\* IME is left false
PollOne ==
    /\ ~cpu'.ime
    /\ cpu'.pc = VectorOf(Lowest(Pending))
    /\ cpu'.sp = (cpu.sp + 65534) % 65536
    /\ cpu'.cycles = cpu.cycles + 20

\* the requests other than the one serviced are still in IF
PollKeepsOthers ==
    \A j \in 0..4 :
        j # Lowest(Pending) /\ Bit(ic.interrupt_flag, j) = 1 => Bit(ic'.interrupt_flag, j) = 1

\* C38 (as stated): handle_interrupts changes nothing when IME is false or
\* IF & IE = 0; otherwise it services one interrupt, leaves IME false, and
\* the remaining pending bits stay set in IF.
C38_Stated ==
    [][last'.op = "handle_interrupts" =>
          IF ~cpu.ime \/ Pending = 0 THEN PollIdle
          ELSE PollOne /\ PollKeepsOthers]_vars

\* C38 (amended): the same, the remaining pending bits staying set in IF
\* when the push of the dispatch does not write 0xFF0F.
C38_OnePerPoll ==
    [][last'.op = "handle_interrupts" =>
          IF ~cpu.ime \/ Pending = 0 THEN PollIdle
          ELSE /\ PollOne
               /\ 65295 \notin PushAddresses => PollKeepsOthers]_vars

\* a poll has serviced V-blank with the timer and the joypad also pending
\* and enabled; both are still pending and IME is false
C38_Witness ==
    /\ Polled /\ obs.pre.ime
    /\ PrePending = 21
    /\ cpu.pc = 64
    /\ ~cpu.ime
    /\ BitAnd(ic.interrupt_flag, ic.interrupt_enable) = 20


----------------------------------------------------------------------------
(* SpecResetRun: the frame loop after GameBoy.reset.  reset constructs a   *)
(* new Interrupts, CPU and PPU and keeps Memory and Timer, which still     *)
(* hold the Interrupts made by the constructor.  ic is the controller the  *)
(* bus and the Timer hold; frame.interrupts is the one reset made, which   *)
(* the new PPU requests on and emulate_frame polls.  obs.total is the sum  *)
(* of the cycles run since the reset.                                      *)

MaxResetCycles == 66000

\* Interrupts.service_interrupt on the controller N made by reset: its bus
\* writes reach the controller Memory holds
service_interrupt_detached(S, N, interrupt_bit, vector) ==
    LET f  == BitClear(N.interrupt_flag, 2 ^ interrupt_bit)
        S2 == write_byte([S EXCEPT !.cpu.ime = FALSE], \hFF0F, f)
        S4 == push_word([S2 EXCEPT !.cpu.halted = FALSE], S2.cpu.pc)
    IN  [S |-> add_cycles([S4 EXCEPT !.cpu.pc = vector], 20),
         N |-> [N EXCEPT !.interrupt_flag = f]]

\* Interrupts.handle_interrupts on the controller N made by reset
handle_interrupts_detached(S, N) ==
    IF ~S.cpu.ime THEN [S |-> S, N |-> N]
    ELSE LET pending == BitAnd(N.interrupt_flag, N.interrupt_enable)
         IN  IF pending = 0 THEN [S |-> S, N |-> N]
             ELSE IF Bit(pending, INT_VBLANK) = 1
                  THEN service_interrupt_detached(S, N, INT_VBLANK, VECTOR_VBLANK)
             ELSE IF Bit(pending, INT_LCD) = 1
                  THEN service_interrupt_detached(S, N, INT_LCD, VECTOR_LCD)
             ELSE IF Bit(pending, INT_TIMER) = 1
                  THEN service_interrupt_detached(S, N, INT_TIMER, VECTOR_TIMER)
             ELSE IF Bit(pending, INT_SERIAL) = 1
                  THEN service_interrupt_detached(S, N, INT_SERIAL, VECTOR_SERIAL)
             ELSE service_interrupt_detached(S, N, INT_JOYPAD, VECTOR_JOYPAD)

\* the result r of a PPU.step run with N as its controller, put back on the
\* system whose bus holds O: request_interrupt sets the bit in N and writes
\* N's flags to 0xFF0F, which Memory hands to O.set_interrupt_flag
ppu_detach(O, N, r) ==
    [P |-> r.P, N |-> r.S.ic,
     S |-> [r.S EXCEPT !.ic = IF r.S.ic.nreq[INT_VBLANK] > N.nreq[INT_VBLANK]
                              THEN [O EXCEPT !.interrupt_flag = BitAnd(r.S.ic.interrupt_flag, 31)]
                              ELSE O]]

\* PPU.step of the PPU made by reset
ppu_step_detached(P, S, N, cpu_cycles) ==
    ppu_detach(S.ic, N, ppu_step(P, [S EXCEPT !.ic = N], cpu_cycles))

\* emulate_frame after reset: the interrupt poll that ends a pass of the loop
reset_poll(rt, P, N, cycles_executed) ==
    handle_interrupts_detached(rt.S, N)
        @@ [P |-> P, T |-> rt.P, cycles_executed |-> cycles_executed]

\* emulate_frame after reset: timer.step(cycles_executed), then the poll
reset_timer(rp, T, cycles_executed) ==
    reset_poll(timer_step(T, rp.S, cycles_executed), rp.P, rp.N, cycles_executed)

\* emulate_frame after reset: ppu.step(cycles_executed), then the timer
reset_ppu(S2, P, T, N, cycles_executed) ==
    reset_timer(ppu_step_detached(P, S2, N, cycles_executed), T, cycles_executed)

\* emulate_frame after reset: cycles_executed is measured around cpu.step
reset_cycles_executed(S, S1, P, T, N) ==
    LET executed == S1.cpu.cycles - S.cpu.cycles
    IN  reset_ppu(IF executed = 0 THEN add_cycles(S1, 4) ELSE S1, P, T, N,
                  IF executed = 0 THEN 4 ELSE executed)

\* emulate_frame after reset: the body of the while loop
reset_iteration(S, P, T, N) == reset_cycles_executed(S, cpu_step(S), P, T, N)

\* the result r of a pass of the loop is stored
reset_store(r) ==
    /\ SetSys(r.S)
    /\ ppu' = r.P
    /\ timer' = r.T
    /\ frame' = [frame EXCEPT !.interrupts = r.N]
    /\ obs' = [obs EXCEPT !.total = @ + r.cycles_executed, !.pre = Snap(Sys)]

\* one pass of the loop of emulate_frame, after reset
ResetIteration ==
    /\ frame.pc = "reset"
    /\ obs.total < MaxResetCycles
    /\ reset_store(reset_iteration(Sys, ppu, timer, frame.interrupts))
    /\ last' = [op |-> "reset_iteration", arg |-> NextOpcode]
    /\ UNCHANGED cart

NextResetRun ==
    \/ Reset
    \/ ResetIteration

SpecResetRun == InitFrame /\ [][NextResetRun]_vars

\* C39 (as stated): after GameBoy.reset the controller the orchestrator
\* polls is the one the bus and the PPU use: when the PPU requests V-blank
\* in a pass of the loop, V-blank is enabled in IE as read through the bus
\* and IME is true at the poll, the poll dispatches to 0x0040.
C39_Stated ==
    [][(/\ last'.op = "reset_iteration"
        /\ frame'.interrupts.nreq[INT_VBLANK] > frame.interrupts.nreq[INT_VBLANK]
        /\ Bit(read_byte(Sys', 65535), INT_VBLANK) = 1
        /\ cpu_step(Sys).cpu.ime)
          => cpu'.pc = VECTOR_VBLANK /\ ~cpu'.ime]_vars


----------------------------------------------------------------------------
(* SpecTac: Timer.step interleaved with writes of TAC and DIV, on a timer  *)
(* fresh from construction.  obs.steps counts the calls made.              *)

MaxTacOps == 5

\* TAC values: off and on at each frequency; and a write of DIV
TacWrites == { <<65287, v>> : v \in {0, 1, 4, 5, 6, 7} } \cup { <<65284, 0>> }

TacSteps == {4, 24, 200}

InitTac ==
    /\ cart = cartridge_load_rom(Cartridge0, EmptyArr, \h8000)
    /\ mem = load_rom(Memory0, get_rom_data(cart))
    /\ cpu = CPU0
    /\ ic = Interrupts0
    /\ inp = Input0
    /\ apu = APU0
    /\ ppu = PPU0
    /\ timer = Timer0
    /\ frame = Frame0
    /\ obs = Obs0
    /\ last = [op |-> "init", arg |-> 0, value |-> 0]

\* Timer.write_register(address, value)
TacWrite(address, value) ==
    /\ obs.steps < MaxTacOps
    /\ timer' = timer_write_register(timer, address, value)
    /\ obs' = [obs EXCEPT !.steps = @ + 1]
    /\ last' = [op |-> "Timer.write_register", arg |-> address, value |-> value]
    /\ UNCHANGED <<cpu, mem, ic, inp, apu, ppu, cart, frame>>

\* Timer.step(cycles)
TacStep(cycles) ==
    LET r == timer_step(timer, Sys, cycles)
    IN  /\ obs.steps < MaxTacOps
        /\ timer' = r.P
        /\ SetSys(r.S)
        /\ obs' = [obs EXCEPT !.steps = @ + 1]
        /\ last' = [op |-> "Timer.step", arg |-> cycles, value |-> 0]
        /\ UNCHANGED <<ppu, cart, frame>>

NextTac ==
    \/ \E w \in TacWrites : TacWrite(w[1], w[2])
    \/ \E c \in TacSteps : TacStep(c)

SpecTac == InitTac /\ [][NextTac]_vars

\* the period TAC bits 1..0 select, in cycles per TIMA tick
TacPeriod(tac) ==
    IF tac % 4 = 0 THEN 1024 ELSE IF tac % 4 = 1 THEN 16 ELSE IF tac % 4 = 2 THEN 64 ELSE 256

\* C40: in any interleaving of Timer.step and write_register, after every
\* Timer.step div_counter is in 0..255 and, while TAC bit 2 is set,
\* tima_counter is at least 0 and less than the period TAC bits 1..0
\* select; a TAC write that takes bit 2 from 0 to 1 resets tima_counter
\* and any other TAC write leaves it as it is.
C40_TimerAccumulators ==
    /\ [](last.op = "Timer.step" =>
            /\ timer.div_counter \in 0..255
            /\ Bit(timer.tac, 2) = 1 =>
                   (timer.tima_counter >= 0 /\ timer.tima_counter < TacPeriod(timer.tac)))
    /\ [][(last'.op = "Timer.write_register" /\ last'.arg = 65287) =>
            /\ timer'.tac = last'.value % 8
            /\ timer'.tima_counter =
                   IF Bit(timer.tac, 2) = 0 /\ Bit(last'.value, 2) = 1
                   THEN 0 ELSE timer.tima_counter]_vars

\* TAC = 4, 200 cycles, TAC = 5 written with the timer running (the
\* accumulator keeps its 200), then a step of 4 cycles: 12 ticks of 16
\* cycles and 12 cycles left
C40_Witness ==
    /\ last.op = "Timer.step"
    /\ last.arg = 4
    /\ timer.tac = 5
    /\ timer.tima = 12
    /\ timer.tima_counter = 12

====
